---- MODULE Spec2Model ----
(***************************************************************************)
(* Selector resolution engine and bounded HTML extractor of                *)
(* fast-playwright-mcp.                                                    *)
(*                                                                         *)
(* Strings that the code inspects character by character (CSS expressions, *)
(* text filters, tag names, ids) are sequences of one-character strings.   *)
(* Strings the code only compares or prints (refs, role names, fixed       *)
(* message texts) are TLA+ strings.  Confidence levels are in tenths.      *)
(* An optional field that is absent is modelled by a fixed "none" value of *)
(* the field's type (NoError, hasAlternatives = FALSE).                    *)
(*                                                                         *)
(* Six specifications share the variables:                                 *)
(*   Spec         resolveSelectors under its three strategies              *)
(*   SpecResolve  resolveSingleSelector over many documents and selectors  *)
(*   SpecExtract  HTMLInspector.extractHTML on a document tree, with the   *)
(*                content sizes computed in bytes and UTF-16 units, and a  *)
(*                page that may lose an element during the extraction;     *)
(*                engine answers that arrive after a lost race are left    *)
(*                to Spec                                                  *)
(*   SpecTool     the element tools (click, hover, select_option, drag,    *)
(*                evaluate, screenshot) on top of resolveSelectors         *)
(*   SpecAll      every way into the resolver: the three above that call   *)
(*                resolveSelectors or resolveSingleSelector, together      *)
(*   SpecHandle   a SmartHandle, its overlapping dispose() calls and the   *)
(*                accesses made through it                                 *)
(***************************************************************************)
EXTENDS Integers, Sequences, FiniteSets, TLC

VARIABLES
  page,        \* the live document the engine answers queries against
  selectors,   \* the selector list handed to the operation
  options,     \* BatchResolutionOptions of the resolveSelectors call
  now,         \* Date.now(), in ms
  tasks,       \* one entry per promise created by the strategy executor
  batch,       \* the promise returned by resolveSelectors
  single,      \* the promise returned by resolveSingleSelector
  inspect,     \* HTMLInspectionOptions of the extractHTML call (depth, maxSize, format)
  extraction,  \* the promise returned by extractHTML and the progress behind it
  tool,        \* the element tool being handled: its input, progress and outcome
  smartHandle  \* a SmartHandle: its fields, its dispose() calls, its last access

vars ==
  <<page, selectors, options, now, tasks, batch, single, inspect, extraction, tool,
    smartHandle>>

----------------------------------------------------------------------------
(* Bounds of the model *)

MaxSelectors == 3      \* longest selector list of a batch
MaxLate == 1           \* engine queries of a batch that settle after losing their race

----------------------------------------------------------------------------
(* Program constants *)

HIGH == 9
MEDIUM == 7
LOW == 5
VERY_LOW == 3
CandidateLimit == 5
AlternativeRoleLimit == 3
AlternativeTextLimit == 2
StaggerMs == 10
defaultTimeoutMs == 3000
ShortTimeoutMs == 10

REF == "ref"
CSS_PARALLEL == "css_parallel"
ROLE_SEQUENTIAL == "role_sequential"
TEXT_FALLBACK == "text_fallback"

----------------------------------------------------------------------------
(* Character strings *)

LowerCase ==
  {"a","b","c","d","e","f","g","h","i","j","k","l","m",
   "n","o","p","q","r","s","t","u","v","w","x","y","z"}

Min(a, b) == IF a <= b THEN a ELSE b

\* String.prototype.startsWith for a one-character prefix
StartsWith(s, c) == Len(s) >= 1 /\ s[1] = c

\* /^[a-z]+$/.test(s)
GENERIC_TAG_SELECTOR(s) == Len(s) >= 1 /\ \A i \in 1..Len(s) : s[i] \in LowerCase

\* String.prototype.substring(0, n)
Substring0(s, n) == SubSeq(s, 1, Min(n, Len(s)))

\* substring containment, the engine's hasText / getByText test
Contains(hay, needle) ==
  \E i \in 0..(Len(hay) - Len(needle)) : SubSeq(hay, i + 1, i + Len(needle)) = needle

\* JavaScript truthiness of an optional string field
Truthy(s) == s # <<>>

----------------------------------------------------------------------------
(* Selectors: records told apart by the fields they carry *)

isRefSelector(selector) == "ref" \in DOMAIN selector
isRoleSelector(selector) == "role" \in DOMAIN selector
isCSSSelector(selector) == "css" \in DOMAIN selector
isTextSelector(selector) == "text" \in DOMAIN selector /\ ~("role" \in DOMAIN selector)

\* elementSelectorSchema.parse: the first schema of the union that the object
\* satisfies, with the fields that schema does not know stripped
IsValidSelector(selector) == DOMAIN selector \cap {"ref", "role", "css", "text"} # {}

Strip(selector, fields) == [f \in DOMAIN selector \cap fields |-> selector[f]]

validateElementSelector(selector) ==
  IF "ref" \in DOMAIN selector THEN Strip(selector, {"ref"})
  ELSE IF "role" \in DOMAIN selector THEN Strip(selector, {"role", "text"})
  ELSE IF "css" \in DOMAIN selector THEN Strip(selector, {"css"})
  ELSE Strip(selector, {"text", "tag"})

_validateSelectors(sels) == [i \in 1..Len(sels) |-> validateElementSelector(sels[i])]

FirstInvalid(sels) ==
  CHOOSE i \in 1..Len(sels) :
    /\ ~IsValidSelector(sels[i])
    /\ \A j \in 1..(i - 1) : IsValidSelector(sels[j])

\* selector.text / selector.tag, <<>> when the optional field is absent
TextOf(selector) == IF "text" \in DOMAIN selector THEN selector.text ELSE <<>>
TagOf(selector) == IF "tag" \in DOMAIN selector THEN selector.tag ELSE <<>>

----------------------------------------------------------------------------
(* The engine: locators are lazy descriptions, evaluated against the page  *)
(* each time they are counted or read.                                     *)

NoFilter == <<>>

RefLocator(ref) ==
  [by |-> "aria-ref", ref |-> ref, role |-> "", expr |-> <<>>, hasText |-> NoFilter]
RoleLocator(role, text) ==
  [by |-> "role", ref |-> "", role |-> role, expr |-> <<>>, hasText |-> text]
CssLocator(css, text) ==
  [by |-> "css", ref |-> "", role |-> "", expr |-> css, hasText |-> text]
TextLocator(text) ==
  [by |-> "text", ref |-> "", role |-> "", expr |-> text, hasText |-> NoFilter]

\* this.page.locator('not-found')
NotFoundLocator ==
  CssLocator(<<"n","o","t","-","f","o","u","n","d">>, NoFilter)

\* a CSS expression the engine cannot parse: empty, or an unclosed bracket
CssSyntaxError(css) ==
  \/ css = <<>>
  \/ /\ \E i \in 1..Len(css) : css[i] = "["
     /\ ~ \E i \in 1..Len(css) : css[i] = "]"

CssMatches(el, css) ==
  IF StartsWith(css, "#") THEN el.id = Tail(css)
  ELSE IF StartsWith(css, ".") THEN el.cls = Tail(css)
  ELSE el.tag = css

ElementMatches(el, loc) ==
  /\ CASE loc.by = "aria-ref" -> el.ref = loc.ref
       [] loc.by = "role" -> el.role = loc.role
       [] loc.by = "css" -> CssMatches(el, loc.expr)
       [] loc.by = "text" -> Contains(el.text, loc.expr)
  /\ Contains(el.text, loc.hasText)

\* the positions, in document order, of the elements a locator matches
Matches(pg, loc) ==
  {i \in 1..Len(pg.elements) : ElementMatches(pg.elements[i], loc)}

\* locator.count() rejects: page closed, role query failing, bad CSS
QueryThrows(pg, loc) ==
  \/ pg.closed
  \/ loc.by = "role" /\ loc.role \in pg.failRoles
  \/ loc.by = "css" /\ CssSyntaxError(loc.expr)

Count(pg, loc) == Cardinality(Matches(pg, loc))

\* locator.first()
First(pg, loc) ==
  CHOOSE i \in Matches(pg, loc) : \A j \in Matches(pg, loc) : i <= j

----------------------------------------------------------------------------
(* Errors and results *)

Err(text, n, listed, cause) ==
  [text |-> text, n |-> n, listed |-> listed, cause |-> cause]
NoError == Err("", 0, 0, "")
EngineError == Err("engine error", 0, 0, "")

Thrown(error) == [threw |-> TRUE, error |-> error, value |-> [none |-> TRUE]]
Returned(value) == [threw |-> FALSE, error |-> NoError, value |-> value]

Failure(selector, strategy, error) ==
  [locator |-> NotFoundLocator, selector |-> selector, confidence |-> 0,
   strategy |-> strategy, hasAlternatives |-> FALSE, alternatives |-> <<>>,
   error |-> error]

FailureWithAlternatives(selector, strategy, alternatives, error) ==
  [locator |-> NotFoundLocator, selector |-> selector, confidence |-> 0,
   strategy |-> strategy, hasAlternatives |-> TRUE, alternatives |-> alternatives,
   error |-> error]

Success(locator, selector, confidence, strategy) ==
  [locator |-> locator, selector |-> selector, confidence |-> confidence,
   strategy |-> strategy, hasAlternatives |-> FALSE, alternatives |-> <<>>,
   error |-> NoError]

\* { ...result, resolutionTimeMs }
WithTime(result, ms) ==
  [f \in DOMAIN result \cup {"resolutionTimeMs"} |->
     IF f = "resolutionTimeMs" THEN ms ELSE result[f]]

_getStrategyForSelector(selector) ==
  IF isRefSelector(selector) THEN REF
  ELSE IF isCSSSelector(selector) THEN CSS_PARALLEL
  ELSE IF isRoleSelector(selector) THEN ROLE_SEQUENTIAL
  ELSE TEXT_FALLBACK

\* (mutant) an error result keeps a low confidence instead of 0
_createErrorResult_LowConfidence(selector, error, resolutionTimeMs) ==
  WithTime([Failure(selector, _getStrategyForSelector(selector), error)
              EXCEPT !.confidence = VERY_LOW],
           resolutionTimeMs)

_createErrorResult(selector, error, resolutionTimeMs) ==
  WithTime(Failure(selector, _getStrategyForSelector(selector), error),
           resolutionTimeMs)

\* (mutant) every match is listed as a candidate
_getMatchCandidates_Unbounded(pg, locator) == Count(pg, locator)

\* candidates listed in an ambiguity error
_getMatchCandidates(pg, locator) == Min(Count(pg, locator), CandidateLimit)

----------------------------------------------------------------------------
(* Alternative finder *)

commonRoleAlternatives(role) ==
  CASE role = "button" -> <<"link", "menuitem">>
    [] role = "link" -> <<"button", "menuitem">>
    [] role = "textbox" -> <<"searchbox", "combobox">>
    [] role = "checkbox" -> <<"radio", "switch">>
    [] OTHER -> <<>>

\* { role: altRole, text }
AlternativeRole(selector, altRole) ==
  IF "text" \in DOMAIN selector
    THEN [role |-> altRole, text |-> selector.text]
    ELSE [role |-> altRole]

\* (mutant) the probes of the alternative roles leave out the text filter
_findRoleAlternatives_Unfiltered(pg, selector) ==
  LET roleAlts == commonRoleAlternatives(selector.role)
      present(altRole) ==
        /\ ~QueryThrows(pg, RoleLocator(altRole, NoFilter))
        /\ Count(pg, RoleLocator(altRole, NoFilter)) > 0
      valid == SelectSeq(roleAlts, present)
      alternatives == [i \in 1..Len(valid) |-> AlternativeRole(selector, valid[i])]
  IN  SubSeq(alternatives, 1, Min(Len(alternatives), AlternativeRoleLimit))

_findRoleAlternatives(pg, selector) ==
  LET roleAlts == commonRoleAlternatives(selector.role)
      probe(altRole) ==
        IF Truthy(TextOf(selector))
          THEN RoleLocator(altRole, TextOf(selector))
          ELSE RoleLocator(altRole, NoFilter)
      present(altRole) ==
        /\ ~QueryThrows(pg, probe(altRole))
        /\ Count(pg, probe(altRole)) > 0
      valid == SelectSeq(roleAlts, present)
      alternatives == [i \in 1..Len(valid) |-> AlternativeRole(selector, valid[i])]
  IN  SubSeq(alternatives, 1, Min(Len(alternatives), AlternativeRoleLimit))

_findTextAlternatives(pg, text) ==
  LET partialText == Substring0(text, Len(text) \div 2)
      found ==
        /\ Len(partialText) > 3
        /\ ~QueryThrows(pg, TextLocator(partialText))
        /\ Count(pg, TextLocator(partialText)) > 0
      alternatives == IF found THEN <<[text |-> partialText]>> ELSE <<>>
  IN  SubSeq(alternatives, 1, Min(Len(alternatives), AlternativeTextLimit))

----------------------------------------------------------------------------
(* Variant resolvers.  Each returns Returned(result) or Thrown(error).     *)

_resolveRefSelector(pg, selector) ==
  LET locator == RefLocator(selector.ref)
  IN  IF QueryThrows(pg, locator)
        THEN Thrown(Err("Failed to resolve ref selector", 0, 0, EngineError.text))
      ELSE IF Count(pg, locator) = 0
        THEN Returned(Failure(selector, REF,
                              Err("Ref not found in current page state", 0, 0, "")))
      ELSE Returned(Success(locator, selector, HIGH, REF))

\* (mutant) several matches without a text filter are accepted
_resolveRoleSelector_NoAmbiguityCheck(pg, selector) ==
  LET hasText == Truthy(TextOf(selector))
      locator == IF hasText THEN RoleLocator(selector.role, selector.text)
                 ELSE RoleLocator(selector.role, NoFilter)
      confidence == IF hasText THEN HIGH ELSE MEDIUM
  IN  IF QueryThrows(pg, locator)
        THEN Thrown(Err("Failed to resolve role selector", 0, 0, EngineError.text))
      ELSE IF Count(pg, locator) = 0
        THEN Returned(FailureWithAlternatives(selector, ROLE_SEQUENTIAL,
                        _findRoleAlternatives(pg, selector),
                        Err("No elements found with role", 0, 0, "")))
      ELSE Returned(Success(locator, selector, confidence, ROLE_SEQUENTIAL))

\* (mutant) with no match, the first alternative role found is resolved instead
_resolveRoleSelector_AppliesAlternative(pg, selector) ==
  LET hasText == Truthy(TextOf(selector))
      locator == IF hasText THEN RoleLocator(selector.role, selector.text)
                 ELSE RoleLocator(selector.role, NoFilter)
      confidence == IF hasText THEN HIGH ELSE MEDIUM
      count == Count(pg, locator)
      alternatives == _findRoleAlternatives(pg, selector)
  IN  IF QueryThrows(pg, locator)
        THEN Thrown(Err("Failed to resolve role selector", 0, 0, EngineError.text))
      ELSE IF count = 0 /\ Len(alternatives) > 0
        THEN Returned(Success(RoleLocator(alternatives[1].role,
                                          IF hasText THEN selector.text ELSE NoFilter),
                              selector, LOW, ROLE_SEQUENTIAL))
      ELSE IF count = 0
        THEN Returned(FailureWithAlternatives(selector, ROLE_SEQUENTIAL, alternatives,
                        Err("No elements found with role", 0, 0, "")))
      ELSE IF count > 1 /\ ~hasText
        THEN Returned(Failure(selector, ROLE_SEQUENTIAL,
                        Err("Multiple elements found with role", count,
                            _getMatchCandidates(pg, locator), "")))
      ELSE Returned(Success(locator, selector, confidence, ROLE_SEQUENTIAL))

_resolveRoleSelector(pg, selector) ==
  LET hasText == Truthy(TextOf(selector))
      locator == IF hasText THEN RoleLocator(selector.role, selector.text)
                 ELSE RoleLocator(selector.role, NoFilter)
      confidence == IF hasText THEN HIGH ELSE MEDIUM
      count == Count(pg, locator)
  IN  IF QueryThrows(pg, locator)
        THEN Thrown(Err("Failed to resolve role selector", 0, 0, EngineError.text))
      ELSE IF count = 0
        THEN Returned(FailureWithAlternatives(selector, ROLE_SEQUENTIAL,
                        _findRoleAlternatives(pg, selector),
                        Err("No elements found with role", 0, 0, "")))
      ELSE IF count > 1 /\ ~hasText
        THEN Returned(Failure(selector, ROLE_SEQUENTIAL,
                        Err("Multiple elements found with role", count,
                            _getMatchCandidates(pg, locator), "")))
      ELSE Returned(Success(locator, selector, confidence, ROLE_SEQUENTIAL))

\* (mutant) an id selector is trusted only when it matches a single element
_resolveCSSSelector_HighOnlyIfUnique(pg, selector) ==
  LET locator == CssLocator(selector.css, NoFilter)
      count == Count(pg, locator)
  IN  IF QueryThrows(pg, locator)
        THEN Thrown(Err("Failed to resolve CSS selector", 0, 0, EngineError.text))
      ELSE IF count = 0
        THEN Returned(Failure(selector, CSS_PARALLEL,
                        Err("No elements found matching CSS selector", 0, 0, "")))
      ELSE IF StartsWith(selector.css, "#") /\ count = 1
        THEN Returned(Success(locator, selector, HIGH, CSS_PARALLEL))
      ELSE IF count > 1 /\ GENERIC_TAG_SELECTOR(selector.css)
        THEN Returned(Failure(selector, CSS_PARALLEL,
                        Err("Multiple elements found with CSS selector", count,
                            _getMatchCandidates(pg, locator), "")))
      ELSE Returned(Success(locator, selector, MEDIUM, CSS_PARALLEL))

_resolveCSSSelector(pg, selector) ==
  LET locator == CssLocator(selector.css, NoFilter)
      count == Count(pg, locator)
  IN  IF QueryThrows(pg, locator)
        THEN Thrown(Err("Failed to resolve CSS selector", 0, 0, EngineError.text))
      ELSE IF count = 0
        THEN Returned(Failure(selector, CSS_PARALLEL,
                        Err("No elements found matching CSS selector", 0, 0, "")))
      ELSE IF StartsWith(selector.css, "#")
        THEN Returned(Success(locator, selector, HIGH, CSS_PARALLEL))
      ELSE IF count > 1 /\ GENERIC_TAG_SELECTOR(selector.css)
        THEN Returned(Failure(selector, CSS_PARALLEL,
                        Err("Multiple elements found with CSS selector", count,
                            _getMatchCandidates(pg, locator), "")))
      ELSE Returned(Success(locator, selector, MEDIUM, CSS_PARALLEL))

_resolveTextSelector(pg, selector) ==
  LET hasTag == Truthy(TagOf(selector))
      locator == IF hasTag THEN CssLocator(selector.tag, selector.text)
                 ELSE TextLocator(selector.text)
      count == Count(pg, locator)
  IN  IF QueryThrows(pg, locator)
        THEN Thrown(Err("Failed to resolve text selector", 0, 0, EngineError.text))
      ELSE IF count = 0
        THEN Returned(FailureWithAlternatives(selector, TEXT_FALLBACK,
                        _findTextAlternatives(pg, selector.text),
                        Err("No elements found with text", 0, 0, "")))
      ELSE IF hasTag
        THEN Returned(Success(locator, selector, HIGH, TEXT_FALLBACK))
      ELSE IF count > 3
        THEN Returned(Failure(selector, TEXT_FALLBACK,
                        Err("Multiple elements found with text", count,
                            _getMatchCandidates(pg, locator), "")))
      ELSE Returned(Success(locator, selector, MEDIUM, TEXT_FALLBACK))

_resolveSingleSelectorInternal(pg, selector) ==
  IF isRefSelector(selector) THEN _resolveRefSelector(pg, selector)
  ELSE IF isRoleSelector(selector) THEN _resolveRoleSelector(pg, selector)
  ELSE IF isCSSSelector(selector) THEN _resolveCSSSelector(pg, selector)
  ELSE IF isTextSelector(selector) THEN _resolveTextSelector(pg, selector)
  ELSE Thrown(Err("Unknown selector type", 0, 0, ""))

TimeoutError(timeoutMs) == Err("Selector resolution timed out after", timeoutMs, 0, "")

\* What _resolveSelectorWithTimeout settles with once the race is decided:
\* timedOut tells whether the timer won; elapsed is Date.now() - startTime.
_resolveSelectorWithTimeout(pg, selector, timeoutMs, timedOut, elapsed) ==
  LET inner == _resolveSingleSelectorInternal(pg, selector)
  IN  IF timedOut
        THEN Returned(_createErrorResult(selector, TimeoutError(timeoutMs), elapsed))
      ELSE IF inner.threw
        THEN Returned(_createErrorResult(selector, inner.error, elapsed))
      ELSE Returned(WithTime(inner.value, elapsed))

\* The wrapper every strategy puts around _resolveSelectorWithTimeout:
\* try { return await ... } catch (error) { if (!continueOnError) throw error; ... }
StrategyWrapper(outcome, selector, continueOnError) ==
  IF ~outcome.threw THEN outcome
  ELSE IF ~continueOnError THEN outcome
  ELSE Returned(_createErrorResult(selector, outcome.error, 0))

----------------------------------------------------------------------------
(* Strategy executor: resolveSelectors                                      *)

Opt(opts, field, default) == IF field \in DOMAIN opts THEN opts[field] ELSE default

timeoutMs == Opt(options, "timeoutMs", defaultTimeoutMs)
continueOnError == Opt(options, "continueOnError", TRUE)
executionStrategy == Opt(options, "executionStrategy", "hybrid")

_categorizeSelectors(sels) ==
  [refs |-> SelectSeq(sels, isRefSelector),
   css |-> SelectSeq(sels, LAMBDA s : ~isRefSelector(s) /\ isCSSSelector(s)),
   roles |-> SelectSeq(sels, LAMBDA s : ~isRefSelector(s) /\ ~isCSSSelector(s)
                                         /\ isRoleSelector(s)),
   text |-> SelectSeq(sels, LAMBDA s : ~isRefSelector(s) /\ ~isCSSSelector(s)
                                        /\ ~isRoleSelector(s) /\ isTextSelector(s))]

\* [...categorized.refs, ...categorized.css, ...categorized.roles, ...categorized.text]
allSelectors(categorized) ==
  categorized.refs \o categorized.css \o categorized.roles \o categorized.text

otherSelectors(categorized) ==
  categorized.css \o categorized.roles \o categorized.text

NoOutcome == [threw |-> FALSE, error |-> NoError, value |-> [none |-> TRUE]]

\* a promise of the executor that has not been created yet (hybrid, second phase)
WaitingTask(selector, index) ==
  [selector |-> selector, index |-> index, pc |-> "waiting", wakeAt |-> 0,
   startTime |-> 0, timedOut |-> FALSE, query |-> "none", outcome |-> NoOutcome]

\* a promise that entered _resolveSelectorWithTimeout at time t
RacingTask(selector, index, t) ==
  [WaitingTask(selector, index) EXCEPT !.pc = "racing", !.startTime = t,
                                       !.query = "pending"]

\* a promise awaiting setTimeout(resolve, index * 10), created at time t
DelayedTask(selector, index, t) ==
  [WaitingTask(selector, index) EXCEPT !.pc = "delay", !.wakeAt = t + index * StaggerMs]

_resolveParallel(categorized, t) ==
  LET all == allSelectors(categorized)
  IN  [i \in 1..Len(all) |-> RacingTask(all[i], i - 1, t)]

\* (mutant) the promises are created from the last selector to the first
_resolveSequential_Reversed(categorized, t) ==
  LET all == allSelectors(categorized)
  IN  [i \in 1..Len(all) |-> DelayedTask(all[Len(all) + 1 - i], i - 1, t)]

_resolveSequential(categorized, t) ==
  LET all == allSelectors(categorized)
  IN  [i \in 1..Len(all) |-> DelayedTask(all[i], i - 1, t)]

\* (mutant) the promises of the other selectors come before those of the refs
_resolveHybrid_OthersFirst(categorized, t) ==
  LET refs == categorized.refs
      others == otherSelectors(categorized)
  IN  IF Len(refs) > 0
        THEN [i \in 1..Len(others) |-> WaitingTask(others[i], i - 1)]
             \o [i \in 1..Len(refs) |-> RacingTask(refs[i], i - 1, t)]
        ELSE [i \in 1..Len(others) |-> DelayedTask(others[i], i - 1, t)]

\* (mutant) the promises of the other selectors are created with those of
\* the refs
_resolveHybrid_AllAtOnce(categorized, t) ==
  LET refs == categorized.refs
      others == otherSelectors(categorized)
  IN  [i \in 1..Len(refs) |-> RacingTask(refs[i], i - 1, t)]
      \o [i \in 1..Len(others) |-> DelayedTask(others[i], i - 1, t)]

\* _resolveHybrid up to its first await
_resolveHybrid(categorized, t) ==
  LET refs == categorized.refs
      others == otherSelectors(categorized)
  IN  IF Len(refs) > 0
        THEN [i \in 1..Len(refs) |-> RacingTask(refs[i], i - 1, t)]
             \o [i \in 1..Len(others) |-> WaitingTask(others[i], i - 1)]
        ELSE [i \in 1..Len(others) |-> DelayedTask(others[i], i - 1, t)]

Settled(task) == task.pc \in {"fulfilled", "rejected"}

\* the moment the timeout timer of a racing promise fires
Deadline(task) == task.startTime + timeoutMs

\* how a promise of the executor settles once its race is decided
Settle(task, timedOut, queryAfter) ==
  LET raced == _resolveSelectorWithTimeout(page, task.selector, timeoutMs, timedOut,
                                           now - task.startTime)
      outcome == StrategyWrapper(raced, task.selector, continueOnError)
  IN  [task EXCEPT !.pc = IF outcome.threw THEN "rejected" ELSE "fulfilled",
                   !.timedOut = timedOut, !.query = queryAfter,
                   !.outcome = outcome]

\* (mutant) the late answer of the engine replaces the result of the lost race
SettleLate_Overwrites(task) ==
  [Settle(task, FALSE, "settled") EXCEPT !.timedOut = TRUE]

\* an engine query that settles after its race was lost changes nothing but itself
SettleLate(task) == [task EXCEPT !.query = "settled"]

Idle == [status |-> "idle", results |-> <<>>, error |-> NoError]

NoResult == [none |-> TRUE]
IdleSingle ==
  [status |-> "idle", startTime |-> 0, timedOut |-> FALSE, failedReads |-> {},
   result |-> NoResult]

\* extractHTML not yet called; inspection options that leave depth and maxSize
\* to their defaults
IdleExtraction ==
  [status |-> "idle", startTime |-> 0, resolvedAt |-> 0, allResults |-> <<>>,
   order |-> <<>>, result |-> NoResult]
NoOptions == [format |-> "html"]

\* no element tool is being handled
NoTarget == [by |-> "none", ref |-> "", role |-> "", expr |-> <<>>, hasText |-> NoFilter]
IdleTool ==
  [name |-> "none", status |-> "idle", startSelectors |-> <<>>, endSelectors |-> <<>>,
   startResults |-> <<>>,
   issued |-> "none", target |-> NoTarget, endTarget |-> NoTarget,
   message |-> "", errors |-> <<>>]

\* no SmartHandle has been constructed
NoAccess == [kind |-> "none", threw |-> FALSE, afterDispose |-> FALSE]
NoHandle ==
  [disposed |-> FALSE, tracker |-> "none", resourceDisposals |-> 0, untracked |-> 0,
   calls |-> <<>>, access |-> NoAccess]

\* resolveSelectors up to its first await: validation (which throws on the
\* first invalid selector), categorization and the strategy's promise creation
resolveSelectors ==
  IF \E i \in 1..Len(selectors) : ~IsValidSelector(selectors[i])
    THEN /\ tasks' = <<>>
         /\ batch' = [batch EXCEPT !.status = "rejected",
                                   !.error = Err("Invalid selector at index",
                                                 FirstInvalid(selectors) - 1, 0, "")]
    ELSE /\ LET categorized == _categorizeSelectors(_validateSelectors(selectors))
            IN  tasks' =
                  CASE executionStrategy = "parallel" -> _resolveParallel(categorized, now)
                    [] executionStrategy = "sequential" -> _resolveSequential(categorized, now)
                    [] OTHER -> _resolveHybrid(categorized, now)
         /\ batch' = [batch EXCEPT !.status = "pending"]

\* a caller invokes resolveSelectors directly
Call ==
  /\ batch.status = "idle"
  /\ single.status = "idle"
  /\ extraction.status = "idle"
  /\ tool.name = "none"
  /\ Len(selectors) >= 1
  /\ resolveSelectors
  /\ UNCHANGED <<page, selectors, options, now, single, inspect, extraction, tool, smartHandle>>

DelayExpires(i) ==
  /\ tasks[i].pc = "delay"
  /\ tasks[i].wakeAt <= now
  /\ tasks' = [tasks EXCEPT ![i] = RacingTask(tasks[i].selector, tasks[i].index, now)]
  /\ UNCHANGED <<page, selectors, options, now, batch, single, inspect, extraction, tool, smartHandle>>

QuerySettles(i) ==
  /\ tasks[i].pc = "racing"
  /\ tasks' = [tasks EXCEPT ![i] = Settle(tasks[i], FALSE, "settled")]
  /\ UNCHANGED <<page, selectors, options, now, batch, single, inspect, extraction, tool, smartHandle>>

TimerFires(i) ==
  /\ tasks[i].pc = "racing"
  /\ Deadline(tasks[i]) <= now
  /\ tasks' = [tasks EXCEPT ![i] = Settle(tasks[i], TRUE, "pending")]
  /\ UNCHANGED <<page, selectors, options, now, batch, single, inspect, extraction, tool, smartHandle>>

QuerySettlesLate(i) ==
  /\ Settled(tasks[i])
  /\ tasks[i].query = "pending"
  /\ Cardinality({j \in 1..Len(tasks) : tasks[j].timedOut /\ tasks[j].query = "settled"})
       < MaxLate
  /\ tasks' = [tasks EXCEPT ![i] = SettleLate(tasks[i])]
  /\ UNCHANGED <<page, selectors, options, now, batch, single, inspect, extraction, tool, smartHandle>>

\* const refResults = await Promise.all(refPromises); then the other promises start
HybridOthers ==
  /\ batch.status = "pending"
  /\ \E i \in 1..Len(tasks) : tasks[i].pc = "waiting"
  /\ \A i \in 1..Len(tasks) : tasks[i].pc # "waiting" => tasks[i].pc = "fulfilled"
  /\ tasks' = [i \in 1..Len(tasks) |->
                 IF tasks[i].pc = "waiting"
                   THEN DelayedTask(tasks[i].selector, tasks[i].index, now)
                   ELSE tasks[i]]
  /\ UNCHANGED <<page, selectors, options, now, batch, single, inspect, extraction, tool, smartHandle>>

\* the timers that are due: time does not pass them by
TimerDue(task) ==
  \/ task.pc = "delay" /\ task.wakeAt <= now
  \/ task.pc = "racing" /\ Deadline(task) <= now

NextTimer(task) ==
  IF task.pc = "delay" THEN task.wakeAt ELSE Deadline(task)

\* time advances to the next pending timer
Tick ==
  /\ \E i \in 1..Len(tasks) : tasks[i].pc \in {"delay", "racing"}
  /\ \A i \in 1..Len(tasks) : ~TimerDue(tasks[i])
  /\ \E i \in 1..Len(tasks) :
       /\ tasks[i].pc \in {"delay", "racing"}
       /\ \A j \in 1..Len(tasks) :
            tasks[j].pc \in {"delay", "racing"} => NextTimer(tasks[i]) <= NextTimer(tasks[j])
       /\ now' = NextTimer(tasks[i])
  /\ UNCHANGED <<page, selectors, options, tasks, batch, single, inspect, extraction, tool, smartHandle>>

\* (mutant) the batch is rejected as soon as a result carries an error
AwaitAll_FailFast ==
  /\ batch.status = "pending"
  /\ \A i \in 1..Len(tasks) : tasks[i].pc = "fulfilled"
  /\ batch' =
       IF \E j \in 1..Len(tasks) : tasks[j].outcome.value.error # NoError
         THEN [batch EXCEPT !.status = "rejected"]
         ELSE [batch EXCEPT !.status = "returned",
                            !.results = [i \in 1..Len(tasks) |-> tasks[i].outcome.value]]
  /\ UNCHANGED <<page, selectors, options, now, tasks, single, inspect, extraction, tool, smartHandle>>

\* return await Promise.all(promises): rejected with the first rejection,
\* fulfilled with every value, in promise order, once all are fulfilled
AwaitAll ==
  /\ batch.status = "pending"
  /\ \A i \in 1..Len(tasks) : tasks[i].pc # "waiting"
  /\ \A i \in 1..Len(tasks) : tasks[i].pc = "fulfilled" \/
                               \E j \in 1..Len(tasks) : tasks[j].pc = "rejected"
  /\ batch' =
       IF \E j \in 1..Len(tasks) : tasks[j].pc = "rejected"
         THEN LET j == CHOOSE j \in 1..Len(tasks) : tasks[j].pc = "rejected"
              IN  [batch EXCEPT !.status = "rejected", !.error = tasks[j].outcome.error]
         ELSE [batch EXCEPT !.status = "returned",
                            !.results = [i \in 1..Len(tasks) |-> tasks[i].outcome.value]]
  /\ UNCHANGED <<page, selectors, options, now, tasks, single, inspect, extraction, tool, smartHandle>>

----------------------------------------------------------------------------
(* Documents and inputs of the batch specification *)

S_ok == <<"o","k">>
S_go == <<"g","o">>
S_nope == <<"n","o","p","e">>
S_button == <<"b","u","t","t","o","n">>
S_real == <<"r","e","a","l">>
S_hashReal == <<"#">> \o S_real
S_badCss == <<"[","x">>

Element(ref, tag, id, cls, role, text) ==
  [ref |-> ref, tag |-> tag, id |-> id, cls |-> cls, role |-> role, text |-> text]

Document(elements) == [elements |-> elements, closed |-> FALSE, failRoles |-> {}]

\* <button id="real">ok</button> <button>go</button>
BatchPage ==
  Document(<<Element("e1", S_button, S_real, <<>>, "button", S_ok),
             Element("e2", S_button, <<>>, <<>>, "button", S_go)>>)

BatchPool ==
  {[ref |-> "e1"], [css |-> S_hashReal], [css |-> S_badCss],
   [role |-> "button"], [text |-> S_nope], [tag |-> S_button]}

\* the lists of 1..n distinct selectors of the pool
SelectorLists(pool, n) ==
  {l \in UNION {[1..k -> pool] : k \in 1..n} :
     \A i, j \in 1..Len(l) : l[i] = l[j] => i = j}

BatchOptions ==
  {[timeoutMs |-> ShortTimeoutMs, continueOnError |-> c, executionStrategy |-> s] :
     c \in BOOLEAN, s \in {"parallel", "sequential", "hybrid"}}
  \cup {[executionStrategy |-> "sequential"], [continueOnError |-> TRUE]}

Init ==
  /\ page = BatchPage
  /\ selectors \in SelectorLists(BatchPool, MaxSelectors)
  /\ options \in BatchOptions
  /\ now = 0
  /\ tasks = <<>>
  /\ batch = Idle
  /\ single = IdleSingle
  /\ inspect = NoOptions
  /\ extraction = IdleExtraction
  /\ tool = IdleTool
  /\ smartHandle = NoHandle

Next ==
  \/ Call
  \/ \E i \in 1..Len(tasks) : DelayExpires(i)
  \/ \E i \in 1..Len(tasks) : QuerySettles(i)
  \/ \E i \in 1..Len(tasks) : TimerFires(i)
  \/ \E i \in 1..Len(tasks) : QuerySettlesLate(i)
  \/ HybridOthers
  \/ Tick
  \/ AwaitAll

Spec == Init /\ [][Next]_vars

----------------------------------------------------------------------------
(* resolveSingleSelector *)

\* resolveSingleSelector up to its await: an invalid selector is caught and
\* reported as a failure; a valid one enters the race
CallSingle ==
  /\ single.status = "idle"
  /\ batch.status = "idle"
  /\ tool.name = "none"
  /\ Len(selectors) = 1
  /\ single' =
       IF ~IsValidSelector(selectors[1])
         THEN [single EXCEPT !.status = "returned",
                             !.result = _createErrorResult(selectors[1],
                                          Err("Invalid selector", 0, 0, ""), 0)]
         ELSE [single EXCEPT !.status = "racing", !.startTime = now]
  /\ UNCHANGED <<page, selectors, options, now, tasks, batch, inspect, extraction, tool, smartHandle>>

\* the reads of _extractElementMetadata, and the sets of them that the engine
\* lets fail during one extraction
Reads == {"tagName", "attributes", "textContent", "boundingBox", "isVisible", "isEnabled"}
ReadFailures == {{}} \cup {{read} : read \in Reads}

\* the value of a field that is present and undefined
undefined == [undefined |-> TRUE]

\* for (const attr of el.attributes) attrs[attr.name] = attr.value
attributesOf(el) ==
  [name \in {n \in {"id", "class"} : (IF n = "id" THEN el.id ELSE el.cls) # <<>>} |->
     IF name = "id" THEN el.id ELSE el.cls]

\* the six reads are awaited together: boundingBox, isVisible and isEnabled
\* catch their own failure; a failure of tagName, attributes or textContent
\* rejects the Promise.all and the catch around it returns undefined
_extractElementMetadata(pg, locator, failed) ==
  LET element == pg.elements[First(pg, locator)]
  IN  IF failed \cap {"tagName", "attributes", "textContent"} # {}
        THEN undefined
        ELSE [tagName |-> element.tag,
              attributes |-> attributesOf(element),
              textContent |-> element.text,
              boundingBox |-> IF "boundingBox" \in failed THEN "undefined" ELSE "rect",
              isVisible |-> "isVisible" \notin failed,
              isEnabled |-> "isEnabled" \notin failed]

_generateSuggestions(selector, metadata) ==
  IF metadata = undefined THEN <<>>
  ELSE LET has(name) == name \in DOMAIN metadata.attributes
       IN  (IF has("data-testid") /\ ~isCSSSelector(selector)
              THEN <<"Consider using CSS selector with data-testid">> ELSE <<>>)
           \o (IF has("id") /\ ~isCSSSelector(selector)
                 THEN <<"Consider using CSS selector with ID">> ELSE <<>>)
           \o (IF has("role") /\ ~isRoleSelector(selector)
                 THEN <<"Consider using role selector">> ELSE <<>>)

\* { ...result, metadata, suggestions } when the resolution succeeded
Enhanced(pg, result, failed) ==
  IF "locator" \in DOMAIN result /\ result.error = NoError
    THEN LET metadata == _extractElementMetadata(pg, result.locator, failed)
         IN  [f \in DOMAIN result \cup {"metadata", "suggestions"} |->
                IF f = "metadata" THEN metadata
                ELSE IF f = "suggestions" THEN _generateSuggestions(result.selector, metadata)
                ELSE result[f]]
    ELSE result

\* the engine answers before the timer; the metadata of a resolved element is
\* then read, each read succeeding or failing as the engine decides
SingleSettles ==
  /\ single.status = "racing"
  /\ \E failed \in ReadFailures :
       LET result == _resolveSelectorWithTimeout(page, selectors[1], timeoutMs, FALSE,
                                                 now - single.startTime).value
           enhanced == Enhanced(page, result, failed)
       IN  single' = [single EXCEPT
             !.status = "returned",
             !.failedReads = IF enhanced = result THEN {} ELSE failed,
             !.result = enhanced]
  /\ UNCHANGED <<page, selectors, options, now, tasks, batch, inspect, extraction, tool, smartHandle>>

\* the timer fires first
SingleTimerFires ==
  /\ single.status = "racing"
  /\ now' = single.startTime + timeoutMs
  /\ single' = [single EXCEPT
       !.status = "returned",
       !.timedOut = TRUE,
       !.result = _resolveSelectorWithTimeout(page, selectors[1], timeoutMs, TRUE,
                                              now' - single.startTime).value]
  /\ UNCHANGED <<page, selectors, options, tasks, batch, inspect, extraction, tool, smartHandle>>

----------------------------------------------------------------------------
(* Documents and inputs of the single-selector specification *)

S_Submit == <<"S","u","b","m","i","t">>
S_SubmitForm == S_Submit \o <<" ","f","o","r","m">>
S_SubmitNow == S_Submit \o <<" ","n","o","w">>
S_Cancel == <<"C","a","n","c","e","l">>
S_a == <<"a">>
S_Menu == <<"M","e","n","u">>
S_div == <<"d","i","v">>
S_dup == <<"d","u","p">>
S_item == <<"i","t","e","m">>
S_hashDup == <<"#">> \o S_dup
S_dotItem == <<".">> \o S_item

\* the elements a document of the model is drawn from, in document order
MasterElements ==
  <<Element("e1", S_button, S_real, S_item, "button", S_Submit),
    Element("e2", S_button, <<>>, <<>>, "button", S_SubmitForm),
    Element("e3", S_button, S_dup, <<>>, "button", S_Cancel),
    Element("e4", S_a, S_dup, S_item, "link", S_Submit),
    Element("e5", S_div, <<>>, <<>>, "", S_Submit),
    Element("e6", S_div, <<>>, S_item, "", S_SubmitNow),
    Element("e7", S_div, <<>>, <<>>, "", S_Submit),
    Element("e8", S_a, <<>>, <<>>, "menuitem", S_Menu)>>

\* the elements of seq at the positions of keep, in order
RECURSIVE Pick(_, _, _)
Pick(seq, keep, i) ==
  IF i > Len(seq) THEN <<>>
  ELSE (IF i \in keep THEN <<seq[i]>> ELSE <<>>) \o Pick(seq, keep, i + 1)

Documents ==
  {[elements |-> Pick(MasterElements, keep, 1), closed |-> FALSE, failRoles |-> f] :
     keep \in SUBSET (1..Len(MasterElements)), f \in {{}, {"link"}}}
  \cup {[elements |-> MasterElements, closed |-> TRUE, failRoles |-> {}]}

ResolvePool ==
  {[ref |-> "e1"], [ref |-> "e9"],
   [role |-> "button"], [role |-> "button", text |-> S_Submit],
   [role |-> "button", text |-> S_Cancel], [role |-> "button", text |-> <<>>],
   [role |-> "link"], [role |-> "link", text |-> S_Submit], [role |-> "checkbox"],
   [role |-> "heading"],
   [css |-> S_hashReal], [css |-> S_hashDup], [css |-> S_button], [css |-> S_dotItem],
   [css |-> S_div], [css |-> S_badCss],
   [text |-> S_Submit], [text |-> S_Submit, tag |-> S_div], [text |-> S_Cancel],
   [text |-> S_SubmitForm], [text |-> S_Submit, tag |-> <<>>],
   [tag |-> S_div]}

InitResolve ==
  /\ page \in Documents
  /\ selectors \in {<<s>> : s \in ResolvePool}
  /\ options \in {[timeoutMs |-> ShortTimeoutMs]}
  /\ now = 0
  /\ tasks = <<>>
  /\ batch = Idle
  /\ single = IdleSingle
  /\ inspect = NoOptions
  /\ extraction = IdleExtraction
  /\ tool = IdleTool
  /\ smartHandle = NoHandle

NextResolve ==
  \/ CallSingle
  \/ SingleSettles
  \/ SingleTimerFires

SpecResolve == InitResolve /\ [][NextResolve]_vars

----------------------------------------------------------------------------
(* Serialized content.  A content string is a sequence of runs of equal    *)
(* characters: "<" and ">" are themselves, "x" is any other one-byte        *)
(* character, "w" a character that is one UTF-16 unit and three UTF-8       *)
(* bytes, "m" a character of the body of the truncation marker.             *)

MinDepth == 1
MaxDepth == 10
DefaultDepth == 2
MinMaxSize == 1024
MaxMaxSize == 500000
DefaultMaxSize == 50000
TruncationReserve == 100
MarkerBody == 16
SlowInspectionMs == 5000
DeepAverage == 5
WARNING == 30000

Run(c, n) == [c |-> c, n |-> n]

Utf8Width(c) == IF c = "w" THEN 3 ELSE 1

\* html.length, in UTF-16 units
RECURSIVE Length(_)
Length(html) ==
  IF html = <<>> THEN 0 ELSE Head(html).n + Length(Tail(html))

\* new TextEncoder().encode(html).length
RECURSIVE calculateHtmlSize(_)
calculateHtmlSize(html) ==
  IF html = <<>> THEN 0
  ELSE Head(html).n * Utf8Width(Head(html).c) + calculateHtmlSize(Tail(html))

\* html.substring(0, end): a negative end is 0, an end past the string its length
RECURSIVE substring(_, _)
substring(html, end) ==
  IF end <= 0 \/ html = <<>> THEN <<>>
  ELSE IF Head(html).n >= end THEN <<Run(Head(html).c, end)>>
  ELSE <<Head(html)>> \o substring(Tail(html), end - Head(html).n)

\* html.lastIndexOf(c): the 0-based position of the last c, -1 when there is none
RECURSIVE lastIndexOf(_, _)
lastIndexOf(html, c) ==
  IF html = <<>> THEN -1
  ELSE IF html[Len(html)].c = c THEN Length(html) - 1
  ELSE lastIndexOf(SubSeq(html, 1, Len(html) - 1), c)

\* '<!-- TRUNCATED -->'
TRUNCATED == <<Run("<", 1), Run("m", MarkerBody), Run(">", 1)>>

\* html.includes('<!-- TRUNCATED -->')
includes(html, marker) ==
  \E i \in 1..(Len(html) - 2) :
    /\ html[i].c = marker[1].c
    /\ html[i + 1] = marker[2]
    /\ html[i + 2].c = marker[3].c

truncateHtml(html, maxSize) ==
  IF calculateHtmlSize(html) <= maxSize
    THEN [html |-> html, truncated |-> FALSE]
    ELSE LET truncated == substring(html, maxSize - TruncationReserve)
             lastTag == lastIndexOf(truncated, "<")
             safeHtml == IF lastTag > lastIndexOf(truncated, ">")
                           THEN substring(truncated, lastTag)
                           ELSE truncated
         IN  [html |-> safeHtml \o TRUNCATED, truncated |-> TRUE]

\* validateHTMLInspectionOptions accepts the call's options
validateHTMLInspectionOptions(sels, opts) ==
  /\ Len(sels) >= 1
  /\ \A i \in 1..Len(sels) : IsValidSelector(sels[i])
  /\ Opt(opts, "depth", DefaultDepth) >= MinDepth
  /\ Opt(opts, "depth", DefaultDepth) <= MaxDepth
  /\ Opt(opts, "maxSize", DefaultMaxSize) >= MinMaxSize
  /\ Opt(opts, "maxSize", DefaultMaxSize) <= MaxMaxSize
  /\ Opt(opts, "format", "html") \in {"html", "aria", "text"}

----------------------------------------------------------------------------
(* The document tree as the extractor reads it.  An element of a tree      *)
(* document also carries its parent (0 for a child of the body) and the     *)
(* run of characters that fills it after its text.                          *)

\* the direct children of element i ('> *'), in document order
Children(pg, i) ==
  LET kids == {j \in 1..Len(pg.elements) : pg.elements[j].parent = i}
  IN  [k \in 1..Cardinality(kids) |->
         CHOOSE j \in kids : Cardinality({l \in kids : l < j}) = k - 1]

\* the locator of one element of childElements
ElementHandle(pg, i) == RefLocator(pg.elements[i].ref)

RECURSIVE Concat(_)
Concat(strings) ==
  IF strings = <<>> THEN <<>> ELSE Head(strings) \o Concat(Tail(strings))

NonEmpty(html) == SelectSeq(html, LAMBDA r : r.n > 0)

\* the characters of the opening tag between '<' and '>': the name and the
\* id="..." and class="..." attributes
OpenTagChars(el) ==
  Len(el.tag) + (IF el.id = <<>> THEN 0 ELSE 6 + Len(el.id))
              + (IF el.cls = <<>> THEN 0 ELSE 9 + Len(el.cls))

\* el.outerHTML
RECURSIVE outerHTML(_, _)
outerHTML(pg, i) ==
  LET el == pg.elements[i]
      kids == Children(pg, i)
  IN  NonEmpty(<<Run("<", 1), Run("x", OpenTagChars(el)), Run(">", 1),
                 Run("x", Len(el.text)), el.fill>>
               \o Concat([k \in 1..Len(kids) |-> outerHTML(pg, kids[k])])
               \o <<Run("<", 1), Run("x", 1 + Len(el.tag)), Run(">", 1)>>)

\* el.textContent
RECURSIVE textContent(_, _)
textContent(pg, i) ==
  LET el == pg.elements[i]
      kids == Children(pg, i)
  IN  NonEmpty(<<Run("x", Len(el.text)), el.fill>>
               \o Concat([k \in 1..Len(kids) |-> textContent(pg, kids[k])]))

\* `${role}: ${label}` of an element without role and aria-label attributes
ariaContent(pg, i) ==
  NonEmpty(<<Run("x", Len(pg.elements[i].tag) + 2)>> \o textContent(pg, i))

\* the content _extractElementHTML reads for the requested format
Content(pg, i, fmt) ==
  CASE fmt = "text" -> textContent(pg, i)
    [] fmt = "aria" -> ariaContent(pg, i)
    [] OTHER -> outerHTML(pg, i)

----------------------------------------------------------------------------
(* HTMLInspector *)

NoElement == [none |-> TRUE]

S_unknown == <<"u","n","k","n","o","w","n">>

\* the result of the catch block of _extractElementHTML
ErrorElement(selector) ==
  [html |-> <<>>, metadata |-> [tagName |-> S_unknown, sizeBytes |-> 0],
   matchedSelector |-> selector, hasChildren |-> FALSE, children |-> <<>>,
   error |-> "extraction failed", element |-> 0]

\* the loop of _extractChildElements that adds results within the size limit
RECURSIVE AddChildren(_, _)
AddChildren(allResults, currentRemainingBytes) ==
  IF allResults = <<>> \/ currentRemainingBytes <= 0 THEN <<>>
  ELSE IF Head(allResults).metadata.sizeBytes <= currentRemainingBytes
    THEN <<Head(allResults)>>
         \o AddChildren(Tail(allResults),
                        currentRemainingBytes - Head(allResults).metadata.sizeBytes)
  ELSE AddChildren(Tail(allResults), currentRemainingBytes)

RECURSIVE _extractElementHTML(_, _, _, _, _)
RECURSIVE _processBatch(_, _, _, _)
RECURSIVE _extractChildElements_KeepsDepth(_, _, _, _)
RECURSIVE _extractChildElements(_, _, _, _)

\* the field 'element' is the identity of the element the content was read from
_extractElementHTML(pg, locator, selector, opts, remainingSizeBytes) ==
  IF QueryThrows(pg, locator) THEN ErrorElement(selector)
  ELSE IF Count(pg, locator) = 0 THEN NoElement
  ELSE LET element == First(pg, locator)
       IN  IF element \in pg.unreadable THEN ErrorElement(selector)
           ELSE
             LET content == Content(pg, element, opts.format)
                 sizeBytes == calculateHtmlSize(content)
                 html == IF sizeBytes > remainingSizeBytes /\ remainingSizeBytes > 0
                           THEN truncateHtml(content, remainingSizeBytes).html
                           ELSE content
                 size == calculateHtmlSize(html)
             IN  [html |-> html,
                  metadata |-> [tagName |-> pg.elements[element].tag, sizeBytes |-> size],
                  matchedSelector |-> selector,
                  hasChildren |-> opts.depth > 1,
                  children |-> IF opts.depth > 1
                                 THEN _extractChildElements(pg, element, opts,
                                                            remainingSizeBytes - size)
                                 ELSE <<>>,
                  error |-> "",
                  element |-> element]

_processBatch(pg, childElements, childOptions, maxBytes) ==
  LET results ==
        [i \in 1..Len(childElements) |->
           _extractElementHTML(pg, ElementHandle(pg, childElements[i]),
                               [css |-> pg.elements[childElements[i]].tag],
                               childOptions, maxBytes)]
  IN  IF maxBytes > 0 THEN SelectSeq(results, LAMBDA r : r # NoElement) ELSE <<>>

\* (mutant) children are extracted with the depth of their parent
_extractChildElements_KeepsDepth(pg, parent, opts, remainingSizeBytes) ==
  LET childElements == Children(pg, parent)
  IN  IF Len(childElements) = 0 THEN <<>>
      ELSE AddChildren(_processBatch(pg, childElements, opts, remainingSizeBytes),
                       remainingSizeBytes)

_extractChildElements(pg, parent, opts, remainingSizeBytes) ==
  LET childOptions == [opts EXCEPT !.depth = (IF opts.depth = 0 THEN 1 ELSE opts.depth) - 1]
      childElements == Children(pg, parent)
  IN  IF Len(childElements) = 0 THEN <<>>
      ELSE AddChildren(_processBatch(pg, childElements, childOptions, remainingSizeBytes),
                       remainingSizeBytes)

RECURSIVE _calculateElementDepth(_)
_calculateElementDepth(element) ==
  IF ~element.hasChildren \/ element.children = <<>> THEN 1
  ELSE LET depths == {_calculateElementDepth(element.children[i]) :
                        i \in 1..Len(element.children)}
       IN  1 + (CHOOSE d \in depths : \A e \in depths : d >= e)

\* what the promise of one _processSelectorResult call holds before it settles
Unsettled == [settled |-> FALSE, error |-> FALSE, element |-> NoElement]

_processSelectorResult(pg, selectorResult, selector, opts, remainingSize) ==
  IF selectorResult.error # NoError \/ selectorResult.confidence = 0
    THEN [settled |-> TRUE, error |-> TRUE, element |-> NoElement]
    ELSE [settled |-> TRUE, error |-> FALSE,
          element |-> _extractElementHTML(pg, selectorResult.locator, selector, opts,
                                          remainingSize)]

\* (mutant) every extracted element fits
Fits_Always(totalSizeBytes, sizeBytes, limit) == TRUE

\* totalSizeBytes + result.element.metadata.sizeBytes <= maxSize
Fits(totalSizeBytes, sizeBytes, limit) == totalSizeBytes + sizeBytes <= limit

NoStats ==
  [elements |-> <<>>, totalSizeBytes |-> 0, truncated |-> FALSE,
   elementsFound |-> 0, selectorsNotFound |-> 0, totalDepth |-> 0]

\* (mutant) a result without error and without element counts as not found
RECURSIVE AcceptLoop_CountsMissing(_, _, _, _)
AcceptLoop_CountsMissing(allResults, index, acc, limit) ==
  IF index > Len(allResults) THEN acc
  ELSE
    LET result == allResults[index]
    IN  IF result.error \/ result.element = NoElement
          THEN AcceptLoop_CountsMissing(allResults, index + 1,
                 [acc EXCEPT !.selectorsNotFound = @ + 1], limit)
        ELSE IF Fits(acc.totalSizeBytes, result.element.metadata.sizeBytes, limit)
          THEN AcceptLoop_CountsMissing(allResults, index + 1,
                 [elements |-> (index :> result.element) @@ acc.elements,
                  totalSizeBytes |-> acc.totalSizeBytes + result.element.metadata.sizeBytes,
                  truncated |-> acc.truncated \/ includes(result.element.html, TRUNCATED),
                  elementsFound |-> acc.elementsFound + 1,
                  selectorsNotFound |-> acc.selectorsNotFound,
                  totalDepth |-> acc.totalDepth + _calculateElementDepth(result.element)],
                 limit)
        ELSE [acc EXCEPT !.truncated = TRUE]

\* the loop of _processAllSelectors over the gathered results, from position
\* index on; elements maps the (1-based) position of a selector to its node
RECURSIVE AcceptLoop(_, _, _, _)
AcceptLoop(allResults, index, acc, limit) ==
  IF index > Len(allResults) THEN acc
  ELSE
    LET result == allResults[index]
    IN  IF result.error
          THEN AcceptLoop(allResults, index + 1,
                          [acc EXCEPT !.selectorsNotFound = @ + 1], limit)
        ELSE IF /\ result.element # NoElement
                /\ Fits(acc.totalSizeBytes, result.element.metadata.sizeBytes, limit)
          THEN AcceptLoop(allResults, index + 1,
                 [elements |-> (index :> result.element) @@ acc.elements,
                  totalSizeBytes |-> acc.totalSizeBytes + result.element.metadata.sizeBytes,
                  truncated |-> acc.truncated \/ includes(result.element.html, TRUNCATED),
                  elementsFound |-> acc.elementsFound + 1,
                  selectorsNotFound |-> acc.selectorsNotFound,
                  totalDepth |-> acc.totalDepth + _calculateElementDepth(result.element)],
                 limit)
        ELSE IF result.element # NoElement
          THEN [acc EXCEPT !.truncated = TRUE]
        ELSE AcceptLoop(allResults, index + 1, acc, limit)

\* (mutant) the results in the order in which the extractions completed
Gathered_AsCompleted(allResults, order) ==
  [k \in 1..Len(order) |-> allResults[order[k]]]

\* await Promise.all(selectorResults.map(...)): the array of the results in
\* the order of the selectors, whatever the order of completion
Gathered(allResults, order) == allResults

\* _processAllSelectors once every extraction has settled
_processAllSelectors(allResults, limit) == AcceptLoop(allResults, 1, NoStats, limit)

\* stats.totalDepth / stats.elementsFound, as a fraction
Ratio(num, den) == [num |-> num, den |-> den]

\* totalMs, selectorResolutionMs and extractionMs of a call that started at
\* startTime, had its selectors resolved at resolvedAt and ends at t
Timing(startTime, resolvedAt, t) ==
  [totalMs |-> t - startTime, selectorResolutionMs |-> resolvedAt - startTime,
   extractionMs |-> t - resolvedAt]

\* (mutant) only the truncation is reported
generateHTMLInspectionSuggestions_TruncationOnly(result) ==
  IF result.truncated THEN <<"Content was truncated">> ELSE <<>>

generateHTMLInspectionSuggestions(result) ==
  (IF result.truncated THEN <<"Content was truncated">> ELSE <<>>)
  \o (IF result.stats.selectorsNotFound > 0
        THEN <<"Some selectors did not match elements">> ELSE <<>>)
  \o (IF result.timing.totalMs > SlowInspectionMs
        THEN <<"Inspection took longer than expected">> ELSE <<>>)
  \o (IF result.stats.averageDepth.num > DeepAverage * result.stats.averageDepth.den
        THEN <<"Deep element extraction detected">> ELSE <<>>)

\* the performance suggestions extractHTML adds itself
PerformanceSuggestions(result) ==
  (IF result.timing.totalMs > SlowInspectionMs
     THEN <<"Extraction took longer than expected">> ELSE <<>>)
  \o (IF result.totalSizeBytes > WARNING THEN <<"Large content detected">> ELSE <<>>)

\* the result extractHTML builds from the outcome of _processAllSelectors
InspectionResult(stats, timing) ==
  LET result ==
        [elements |-> stats.elements,
         totalSizeBytes |-> stats.totalSizeBytes,
         truncated |-> stats.truncated,
         failed |-> FALSE,
         timing |-> timing,
         stats |-> [elementsFound |-> stats.elementsFound,
                    selectorsNotFound |-> stats.selectorsNotFound,
                    averageDepth |-> IF stats.elementsFound > 0
                                       THEN Ratio(stats.totalDepth, stats.elementsFound)
                                       ELSE Ratio(0, 1)]]
  IN  [f \in DOMAIN result \cup {"suggestions"} |->
         IF f = "suggestions"
           THEN generateHTMLInspectionSuggestions(result) \o PerformanceSuggestions(result)
           ELSE result[f]]

\* the result of the catch block of extractHTML
ExtractionFailed(n, totalMs) ==
  [elements |-> <<>>, totalSizeBytes |-> 0, truncated |-> FALSE, failed |-> TRUE,
   suggestions |-> <<"Extraction failed">>,
   timing |-> [totalMs |-> totalMs, selectorResolutionMs |-> 0, extractionMs |-> 0],
   stats |-> [elementsFound |-> 0, selectorsNotFound |-> n, averageDepth |-> Ratio(0, 1)]]

\* htmlInspectionOptionsSchema: depth and maxSize with their defaults
depth == Opt(inspect, "depth", DefaultDepth)
maxSize == Opt(inspect, "maxSize", DefaultMaxSize)
format == Opt(inspect, "format", "html")

\* { ...this.defaultOptions, ...validatedOptions }
mergedOptions == [depth |-> depth, maxSize |-> maxSize, format |-> format]

\* extractHTML up to its first await: the options are validated (a rejection
\* of the schema leaves the method), then resolveSelectors is called with
\* { continueOnError: true }
extractHTML ==
  /\ extraction.status = "idle"
  /\ batch.status = "idle"
  /\ single.status = "idle"
  /\ options = [continueOnError |-> TRUE]
  /\ IF validateHTMLInspectionOptions(selectors, inspect)
       THEN /\ resolveSelectors
            /\ extraction' = [extraction EXCEPT !.status = "resolving",
                                                !.startTime = now]
       ELSE /\ extraction' = [extraction EXCEPT !.status = "rejected"]
            /\ UNCHANGED <<tasks, batch>>
  /\ UNCHANGED <<page, selectors, options, now, single, inspect, tool, smartHandle>>

\* resolveSelectors has settled: its rejection is caught and reported, its
\* results are handed to _processAllSelectors, which starts one extraction per
\* result, each with the whole of maxSize
StartExtractions ==
  /\ extraction.status = "resolving"
  /\ batch.status \in {"returned", "rejected"}
  /\ extraction' =
       IF batch.status = "rejected"
         THEN [extraction EXCEPT !.status = "returned",
                                 !.result = ExtractionFailed(Len(selectors),
                                                             now - extraction.startTime)]
         ELSE [extraction EXCEPT !.status = "extracting",
                                 !.resolvedAt = now,
                                 !.allResults = [i \in 1..Len(batch.results) |-> Unsettled]]
  /\ UNCHANGED <<page, selectors, options, now, tasks, batch, single, inspect, tool, smartHandle>>

\* the i-th _processSelectorResult settles: the i-th result of the resolver
\* with the i-th selector of the options
ExtractionSettles(i) ==
  /\ extraction.status = "extracting"
  /\ ~extraction.allResults[i].settled
  /\ extraction' =
       [extraction EXCEPT !.allResults[i] =
          _processSelectorResult(page, batch.results[i], _validateSelectors(selectors)[i],
                                 mergedOptions, maxSize),
                          !.order = Append(@, i)]
  /\ UNCHANGED <<page, selectors, options, now, tasks, batch, single, inspect, tool, smartHandle>>

\* what is left in the place of an element that was removed from the document
Gone ==
  [ref |-> "", tag |-> <<>>, id |-> <<>>, cls |-> <<>>, role |-> "", text |-> <<>>,
   parent |-> -1, fill |-> Run("x", 0)]

\* element i is one the page changes, has not changed yet, and an extraction
\* that is about to read it is awaited
AboutToBeRead(i) ==
  /\ extraction.status = "extracting"
  /\ i \in page.volatile
  /\ page.elements[i] # Gone
  /\ i \notin page.unreadable
  /\ \E k \in 1..Len(batch.results) :
       /\ ~extraction.allResults[k].settled
       /\ batch.results[k].error = NoError
       /\ i \in Matches(page, batch.results[k].locator)

\* the page puts one of its elements in a state in which reading its content
\* throws
ElementBreaks(i) ==
  /\ AboutToBeRead(i)
  /\ page' = [page EXCEPT !.unreadable = @ \cup {i}]
  /\ UNCHANGED <<selectors, options, now, tasks, batch, single, inspect, extraction, tool, smartHandle>>

\* the page removes one of its elements
ElementRemoved(i) ==
  /\ AboutToBeRead(i)
  /\ page' = [page EXCEPT !.elements[i] = Gone]
  /\ UNCHANGED <<selectors, options, now, tasks, batch, single, inspect, extraction, tool, smartHandle>>

\* await Promise.all(...) is over: the accept loop runs and extractHTML returns
ReturnExtraction ==
  /\ extraction.status = "extracting"
  /\ \A i \in 1..Len(extraction.allResults) : extraction.allResults[i].settled
  /\ extraction' =
       [extraction EXCEPT !.status = "returned",
                          !.result = InspectionResult(
                                       _processAllSelectors(
                                         Gathered(extraction.allResults, extraction.order),
                                         maxSize),
                                       Timing(extraction.startTime, extraction.resolvedAt,
                                              now))]
  /\ UNCHANGED <<page, selectors, options, now, tasks, batch, single, inspect, tool, smartHandle>>

----------------------------------------------------------------------------
(* Documents, selectors and options of the extractions that are explored *)

MaxExtractSelectors == 2   \* longest selector list of an extraction
DepthBound == 3            \* deepest extraction asked for
BigFill == 700
WideFill == 10100
LongFill == 1100
ItemFill == 300

S_p == <<"p">>
S_ul == <<"u","l">>
S_li == <<"l","i">>
S_span == <<"s","p","a","n">>
S_big == <<"b","i","g">>
S_wide == <<"w","i","d","e">>
S_long == <<"l","o","n","g">>
S_none == <<"n","o","n","e">>
S_hashWide == <<"#">> \o S_wide
S_hashLong == <<"#">> \o S_long
S_hashNone == <<"#">> \o S_none

TreeElement(el, parent, fill) ==
  [ref |-> el.ref, tag |-> el.tag, id |-> el.id, cls |-> el.cls, role |-> el.role,
   text |-> el.text, parent |-> parent, fill |-> fill]

\* <div id="real">ok<ul><li class="item">go...<span>a</span></li>
\*                      <li class="item">...</li></ul></div>
\* <p id="big">...</p> <p id="wide">...</p> <p id="long">...</p> <button>go</button>
\* where p#wide is filled with three-byte characters
TreeDocument(unreadable) ==
  [elements |->
     <<TreeElement(Element("e1", S_div, S_real, <<>>, "", S_ok), 0, Run("x", 0)),
       TreeElement(Element("e2", S_ul, <<>>, <<>>, "list", <<>>), 1, Run("x", 0)),
       TreeElement(Element("e3", S_li, <<>>, S_item, "listitem", S_go), 2, Run("x", ItemFill)),
       TreeElement(Element("e4", S_span, <<>>, <<>>, "", S_a), 3, Run("x", 0)),
       TreeElement(Element("e5", S_li, <<>>, S_item, "listitem", <<>>), 2, Run("x", ItemFill)),
       TreeElement(Element("e6", S_p, S_big, <<>>, "", <<>>), 0, Run("x", BigFill)),
       TreeElement(Element("e7", S_p, S_wide, <<>>, "", <<>>), 0, Run("w", WideFill)),
       TreeElement(Element("e8", S_p, S_long, <<>>, "", <<>>), 0, Run("x", LongFill)),
       TreeElement(Element("e9", S_button, <<>>, <<>>, "button", S_go), 0, Run("x", 0))>>,
   closed |-> FALSE, failRoles |-> {}, unreadable |-> unreadable, volatile |-> {6}]

\* the document; a script of the page may remove p#big or break its
\* serialization
TreeDocuments == {TreeDocument({})}

\* [ref |-> "e6"] is p#big
ExtractPool ==
  {[css |-> S_hashReal], [css |-> S_hashWide], [css |-> S_hashLong],
   [css |-> S_hashNone], [ref |-> "e6"]}

\* the last one is refused by the schema
InspectionOptions ==
  {[depth |-> d, maxSize |-> MinMaxSize, format |-> "html"] : d \in 1..DepthBound}
  \cup {[maxSize |-> MinMaxSize + 500, format |-> "html"], [format |-> "text"],
        [depth |-> 1, maxSize |-> MinMaxSize - 1]}

InitExtract ==
  /\ page \in TreeDocuments
  /\ selectors \in SelectorLists(ExtractPool, MaxExtractSelectors)
  /\ options = [continueOnError |-> TRUE]
  /\ now = 0
  /\ tasks = <<>>
  /\ batch = Idle
  /\ single = IdleSingle
  /\ inspect \in InspectionOptions
  /\ extraction = IdleExtraction
  /\ tool = IdleTool
  /\ smartHandle = NoHandle

NextExtract ==
  \/ extractHTML
  \/ \E i \in 1..Len(tasks) : DelayExpires(i)
  \/ \E i \in 1..Len(tasks) : QuerySettles(i)
  \/ \E i \in 1..Len(tasks) : TimerFires(i)
  \/ HybridOthers
  \/ Tick
  \/ AwaitAll
  \/ StartExtractions
  \/ \E i \in 1..Len(extraction.allResults) : ExtractionSettles(i)
  \/ \E i \in 1..Len(page.elements) : ElementBreaks(i)
  \/ \E i \in 1..Len(page.elements) : ElementRemoved(i)
  \/ ReturnExtraction

SpecExtract == InitExtract /\ [][NextExtract]_vars

----------------------------------------------------------------------------
(* Element tools: click, hover, select_option, drag, evaluate, screenshot.  *)
(* Each handler awaits tab.resolveElementLocators, keeps the results that   *)
(* carry a locator and no error, throws when none is left and otherwise     *)
(* issues its page action on the locator of the first of them.  The engine  *)
(* carrying out the page action is outside the model: tool.issued and       *)
(* tool.target record the call made on the locator.                         *)

ToolNames == {"click", "hover", "select_option", "drag", "evaluate", "screenshot"}

\* tools whose selectors parameter is optional
OptionalSelectors == {"evaluate", "screenshot"}

\* the options tab.resolveElementLocators hands to resolveSelectors: the defaults
LocatorOptions ==
  [timeoutMs |-> defaultTimeoutMs, continueOnError |-> TRUE, executionStrategy |-> "hybrid"]

\* tab.resolveElementLocators(selectors): the results of resolveSelectors
resolveElementLocators ==
  /\ options = LocatorOptions
  /\ resolveSelectors

\* (mutant) a result counts as successful as soon as it carries a locator
successfulResults_LocatorOnly(resolutionResults) ==
  SelectSeq(resolutionResults, LAMBDA r : "locator" \in DOMAIN r)

\* resolutionResults.filter((r) => r.locator && !r.error)
successfulResults(resolutionResults) ==
  SelectSeq(resolutionResults, LAMBDA r : "locator" \in DOMAIN r /\ r.error = NoError)

\* resolutionResults.map((r) => r.error || 'Unknown error')
errorsOf(resolutionResults) ==
  [i \in 1..Len(resolutionResults) |->
     IF resolutionResults[i].error # NoError THEN resolutionResults[i].error
     ELSE Err("Unknown error", 0, 0, "")]

\* the text in front of the joined errors
FailureMessage(name, list) ==
  CASE name = "click" -> "Failed to resolve any element selectors"
    [] name = "screenshot" -> "Failed to resolve element selectors for screenshot"
    [] name = "drag" /\ list = "start" -> "Failed to resolve start element selectors"
    [] name = "drag" /\ list = "end" -> "Failed to resolve end element selectors"
    [] OTHER -> "Failed to resolve element selectors"

\* the call a handler makes on the locator it kept
PageAction(name) ==
  CASE name = "click" -> "locator.click"
    [] name = "hover" -> "locator.hover"
    [] name = "select_option" -> "locator.selectOption"
    [] name = "drag" -> "locator.dragTo"
    [] name = "evaluate" -> "locator._evaluateFunction"
    [] OTHER -> "locator.screenshot"

\* throw new Error(`${message}: ${errors}`)
Throws(t, list, resolutionResults) ==
  [t EXCEPT !.status = "thrown", !.message = FailureMessage(t.name, list),
            !.errors = errorsOf(resolutionResults)]

\* the handler up to its first await.  evaluate and screenshot called without
\* selectors work on the page; every other call resolves its selectors (drag:
\* its startSelectors and its endSelectors; the two resolutions share nothing
\* but the clock and are followed one after the other)
handle ==
  /\ tool.status = "idle"
  /\ tool.name \in ToolNames
  /\ batch.status = "idle"
  /\ IF Len(selectors) = 0
       THEN /\ tool' = [tool EXCEPT !.status = "acted",
                                    !.issued = IF tool.name = "evaluate"
                                                 THEN "page._evaluateFunction"
                                                 ELSE "page.screenshot"]
            /\ UNCHANGED <<tasks, batch>>
       ELSE /\ resolveElementLocators
            /\ tool' = [tool EXCEPT !.status = "resolving"]
  /\ UNCHANGED <<page, selectors, options, now, single, inspect, extraction, smartHandle>>

\* drag: the results of startSelectors are in, those of endSelectors are awaited
dragEnd ==
  /\ tool.status = "resolving"
  /\ tool.name = "drag"
  /\ batch.status = "returned"
  /\ tool' = [tool EXCEPT !.status = "start resolved", !.startResults = batch.results,
                          !.startSelectors = selectors]
  /\ selectors' = tool.endSelectors
  /\ batch' = Idle
  /\ tasks' = <<>>
  /\ UNCHANGED <<page, options, now, single, inspect, extraction, smartHandle>>

dragEndLocators ==
  /\ tool.status = "start resolved"
  /\ resolveElementLocators
  /\ tool' = [tool EXCEPT !.status = "resolving end"]
  /\ UNCHANGED <<page, selectors, options, now, single, inspect, extraction, smartHandle>>

\* the rest of the handler of click, hover, select_option, evaluate and
\* screenshot once the resolution has returned
act ==
  /\ tool.status = "resolving"
  /\ tool.name # "drag"
  /\ batch.status = "returned"
  /\ LET successful == successfulResults(batch.results)
     IN  tool' = IF Len(successful) = 0
                   THEN Throws(tool, "only", batch.results)
                   ELSE [tool EXCEPT !.status = "acted",
                                     !.issued = PageAction(tool.name),
                                     !.target = successful[1].locator]
  /\ UNCHANGED <<page, selectors, options, now, tasks, batch, single, inspect, extraction, smartHandle>>

\* the rest of the handler of drag once both resolutions have returned
dragAct ==
  /\ tool.status = "resolving end"
  /\ batch.status = "returned"
  /\ LET startSuccessful == successfulResults(tool.startResults)
         endSuccessful == successfulResults(batch.results)
     IN  tool' = IF Len(startSuccessful) = 0
                   THEN Throws(tool, "start", tool.startResults)
                 ELSE IF Len(endSuccessful) = 0
                   THEN Throws(tool, "end", batch.results)
                 ELSE [tool EXCEPT !.status = "acted",
                                   !.issued = PageAction(tool.name),
                                   !.target = startSuccessful[1].locator,
                                   !.endTarget = endSuccessful[1].locator]
  /\ UNCHANGED <<page, selectors, options, now, tasks, batch, single, inspect, extraction, smartHandle>>

----------------------------------------------------------------------------
(* Document and inputs of the element tools *)

MaxToolSelectors == 2   \* longest selector list handed to an element tool

\* <button id="real">ok</button> <button id="dup">go</button> <a id="dup">go</a>
ToolPage ==
  Document(<<Element("e1", S_button, S_real, <<>>, "button", S_ok),
             Element("e2", S_button, S_dup, <<>>, "button", S_go),
             Element("e3", S_a, S_dup, <<>>, "link", S_go)>>)

ToolPool ==
  {[ref |-> "e1"], [ref |-> "e9"], [css |-> S_hashReal], [role |-> "button"],
   [role |-> "link", text |-> S_go], [role |-> "link", text |-> S_ok], [text |-> S_go]}

\* the endSelectors of the drags that are explored
EndLists ==
  {<<[css |-> S_hashDup]>>, <<[ref |-> "e9"]>>, <<[role |-> "link", text |-> S_go], [ref |-> "e1"]>>}

ToolCalls ==
  {[IdleTool EXCEPT !.name = n, !.endSelectors = e] :
     n \in ToolNames \ {"drag"}, e \in {<<>>}}
  \cup {[IdleTool EXCEPT !.name = "drag", !.endSelectors = e] : e \in EndLists}

InitTool ==
  /\ page = ToolPage
  /\ tool \in ToolCalls
  /\ selectors \in SelectorLists(ToolPool, MaxToolSelectors)
                     \cup (IF tool.name \in OptionalSelectors THEN {<<>>} ELSE {})
  /\ options = LocatorOptions
  /\ now = 0
  /\ tasks = <<>>
  /\ batch = Idle
  /\ single = IdleSingle
  /\ inspect = NoOptions
  /\ extraction = IdleExtraction
  /\ smartHandle = NoHandle

NextTool ==
  \/ handle
  \/ \E i \in 1..Len(tasks) : DelayExpires(i)
  \/ \E i \in 1..Len(tasks) : QuerySettles(i)
  \/ \E i \in 1..Len(tasks) : TimerFires(i)
  \/ \E i \in 1..Len(tasks) : QuerySettlesLate(i)
  \/ HybridOthers
  \/ Tick
  \/ AwaitAll
  \/ dragEnd
  \/ dragEndLocators
  \/ act
  \/ dragAct

SpecTool == InitTool /\ [][NextTool]_vars

----------------------------------------------------------------------------
(* Every way into the resolver: resolveSelectors called directly,           *)
(* resolveSingleSelector, and the element tools                             *)

InitAll == Init \/ InitResolve \/ InitTool

NextAll ==
  \/ Call
  \/ CallSingle
  \/ handle
  \/ \E i \in 1..Len(tasks) : DelayExpires(i)
  \/ \E i \in 1..Len(tasks) : QuerySettles(i)
  \/ \E i \in 1..Len(tasks) : TimerFires(i)
  \/ \E i \in 1..Len(tasks) : QuerySettlesLate(i)
  \/ HybridOthers
  \/ Tick
  \/ AwaitAll
  \/ SingleSettles
  \/ SingleTimerFires
  \/ dragEnd
  \/ dragEndLocators
  \/ act
  \/ dragAct

SpecAll == InitAll /\ [][NextAll]_vars

----------------------------------------------------------------------------
(* SmartHandle.  The tracker is seen through the calls the handle makes on  *)
(* it: trackResource in the constructor, untrackResource in dispose().      *)

MaxDisposeCalls == 2   \* dispose() calls issued on one handle

\* new SmartHandle(resource, tracker): the resource is registered with the
\* tracker given, or with the global resource manager
SmartHandle(tracker) == [NoHandle EXCEPT !.tracker = tracker]

\* the dispose() calls that have completed
Completed ==
  {c \in 1..Len(smartHandle.calls) : smartHandle.calls[c] # "awaiting"}

\* dispose() up to its await: a call on a disposed handle returns at once,
\* any other call invokes the dispose of the resource and awaits it
dispose ==
  /\ smartHandle.tracker # "none"
  /\ Len(smartHandle.calls) < MaxDisposeCalls
  /\ smartHandle' =
       IF smartHandle.disposed
         THEN [smartHandle EXCEPT !.calls = Append(@, "returned")]
         ELSE [smartHandle EXCEPT !.calls = Append(@, "awaiting"),
                                  !.resourceDisposals = @ + 1]
  /\ UNCHANGED <<page, selectors, options, now, tasks, batch, single, inspect,
                 extraction, tool>>

\* the dispose of the resource settles for call c: a rejection is caught and
\* logged, then the finally block marks the handle and untracks the resource
disposeSettles(c) ==
  /\ smartHandle.calls[c] = "awaiting"
  /\ \E raised \in BOOLEAN :
       smartHandle' =
         [smartHandle EXCEPT !.calls[c] = IF raised THEN "warned" ELSE "disposed",
                             !.disposed = TRUE,
                             !.untracked = @ + 1]
  /\ UNCHANGED <<page, selectors, options, now, tasks, batch, single, inspect,
                 extraction, tool>>

\* get, set and getResource throw 'SmartHandle has been disposed' on a
\* disposed handle; isDisposed never throws
Access(kind) ==
  /\ smartHandle.tracker # "none"
  /\ smartHandle' =
       [smartHandle EXCEPT !.access =
          [kind |-> kind,
           threw |-> kind # "isDisposed" /\ smartHandle.disposed,
           afterDispose |-> Completed # {}]]
  /\ UNCHANGED <<page, selectors, options, now, tasks, batch, single, inspect,
                 extraction, tool>>

get == Access("get")
set == Access("set")
getResource == Access("getResource")
isDisposed == Access("isDisposed")

InitHandle ==
  /\ page = BatchPage
  /\ selectors = <<>>
  /\ options = [continueOnError |-> TRUE]
  /\ now = 0
  /\ tasks = <<>>
  /\ batch = Idle
  /\ single = IdleSingle
  /\ inspect = NoOptions
  /\ extraction = IdleExtraction
  /\ tool = IdleTool
  /\ smartHandle \in {SmartHandle(tracker) : tracker \in {"given", "globalResourceManager"}}

NextHandle ==
  \/ dispose
  \/ \E c \in 1..Len(smartHandle.calls) : disposeSettles(c)
  \/ get
  \/ set
  \/ getResource
  \/ isDisposed

SpecHandle == InitHandle /\ [][NextHandle]_vars

----------------------------------------------------------------------------

(* Properties of the strategy executor *)

\* what the engine answers for a selector resolved on its own
Alone(selector) == _resolveSingleSelectorInternal(page, selector)

\* the resolution behind a promise failed: no match, ambiguity, engine error, timeout
Failed(task) ==
  \/ task.timedOut
  \/ Alone(task.selector).threw
  \/ Alone(task.selector).value.confidence = 0

\* C1: resolveSelectors returns one result per input selector, the i-th result
\* being that of the i-th input selector, for every strategy and every mix of
\* selector kinds.
C1_ResultsInInputOrder ==
  batch.status = "returned" =>
    /\ Len(batch.results) = Len(selectors)
    /\ \A i \in 1..Len(selectors) : batch.results[i].selector = selectors[i]

\* C2: with continueOnError (the default) a selector that fails never makes
\* resolveSelectors throw; it yields confidence 0 and an error in its own
\* result, and every other result is what that selector yields on its own.
C2_FailureStaysInItsOwnResult ==
  continueOnError =>
    /\ batch.status = "rejected" => \E i \in 1..Len(selectors) : ~IsValidSelector(selectors[i])
    /\ \A i \in 1..Len(tasks) : tasks[i].pc # "rejected"
    /\ batch.status = "returned" =>
         /\ Len(batch.results) = Len(tasks)
         /\ \A i \in 1..Len(tasks) :
              LET r == batch.results[i]
                  t == tasks[i]
              IN  /\ r.selector = t.selector
                  /\ Failed(t) => r.confidence = 0 /\ r.error # NoError
                  /\ ~t.timedOut /\ ~Alone(t.selector).threw =>
                       r = WithTime(Alone(t.selector).value, r.resolutionTimeMs)

C2_Witness ==
  /\ continueOnError
  /\ batch.status = "returned"
  /\ \E i \in 1..Len(tasks) : Alone(tasks[i].selector).threw /\ ~tasks[i].timedOut
  /\ \E i \in 1..Len(tasks) : tasks[i].timedOut
  /\ \E i \in 1..Len(tasks) : batch.results[i].confidence > 0

\* C3: with continueOnError = false the first engine error or timeout of a
\* selector makes resolveSelectors reject instead of returning results.
C3_FirstFailureRejects ==
  /\ ~continueOnError
  /\ \E i \in 1..Len(tasks) :
       Settled(tasks[i]) /\ (tasks[i].timedOut \/ Alone(tasks[i].selector).threw)
  => batch.status # "returned"

\* C4: a resolution never stays pending past timeoutMs after its start; one
\* still pending then is a failure with confidence 0 and the timed-out error,
\* and the engine query settling afterwards does not replace that failure.
C4_TimeoutBoundsEveryResolution ==
  \A i \in 1..Len(tasks) :
    LET t == tasks[i]
    IN  /\ t.pc = "racing" => now - t.startTime <= timeoutMs
        /\ t.pc = "fulfilled" => t.outcome.value.resolutionTimeMs <= timeoutMs
        /\ t.timedOut =>
             /\ t.pc = "fulfilled"
             /\ t.outcome.value.confidence = 0
             /\ t.outcome.value.error = TimeoutError(timeoutMs)
             /\ t.outcome.value.resolutionTimeMs = timeoutMs

C4_Witness ==
  /\ batch.status = "returned"
  /\ \E i \in 1..Len(tasks) :
       /\ tasks[i].timedOut
       /\ tasks[i].query = "settled"
       /\ batch.results[i].error = TimeoutError(timeoutMs)

----------------------------------------------------------------------------
(* Properties of the variant resolvers (SpecResolve) *)

\* the single selector resolved, once the engine has answered in time
Answered(kind) ==
  /\ single.status = "returned"
  /\ ~single.timedOut
  /\ IsValidSelector(selectors[1])
  /\ _getStrategyForSelector(selectors[1]) = kind

\* C9: a role selector with no text filter that matches two or more elements
\* is a failure (confidence 0, "Multiple elements (n) found with role");
\* one whose text filter leaves exactly one match succeeds with HIGH.
\* (An empty text is no filter: the code applies none.)
C9_RoleAmbiguityBoundary ==
  Answered(ROLE_SEQUENTIAL) =>
    LET sel == selectors[1]
        r == single.result
        filtered == RoleLocator(sel.role, TextOf(sel))
        n == Count(page, filtered)
    IN  ~QueryThrows(page, filtered) =>
          /\ ~Truthy(TextOf(sel)) /\ n >= 2 =>
               /\ r.confidence = 0
               /\ r.error.text = "Multiple elements found with role"
               /\ r.error.n = n
          /\ Truthy(TextOf(sel)) /\ n = 1 =>
               /\ r.confidence = HIGH
               /\ r.error = NoError
               /\ Matches(page, r.locator) = Matches(page, filtered)

C9_Witness ==
  /\ Answered(ROLE_SEQUENTIAL)
  /\ Truthy(TextOf(selectors[1]))
  /\ Count(page, RoleLocator(selectors[1].role, NoFilter)) >= 2
  /\ Count(page, RoleLocator(selectors[1].role, TextOf(selectors[1]))) = 1
  /\ single.result.confidence = HIGH

\* C10: a successful resolution of a CSS selector that begins with '#' has
\* confidence at least HIGH whatever the number of matches; every other
\* successful CSS resolution has confidence MEDIUM.
C10_CssConfidence ==
  Answered(CSS_PARALLEL) /\ single.result.error = NoError =>
    IF StartsWith(selectors[1].css, "#")
      THEN single.result.confidence >= HIGH
      ELSE single.result.confidence = MEDIUM

C10_Witness ==
  /\ Answered(CSS_PARALLEL)
  /\ single.result.error = NoError
  /\ StartsWith(selectors[1].css, "#")
  /\ Count(page, single.result.locator) >= 2

\* C11: a text selector without a tag that matches more than 3 elements is a
\* failure (confidence 0) whose error lists at most 5 candidates; with 1 to 3
\* matches and no tag it succeeds with MEDIUM; with a tag and at least one
\* match it succeeds with HIGH whatever the number of matches.
\* (An empty tag is no tag: the code applies none.)
C11_TextSelectorConfidence ==
  Answered(TEXT_FALLBACK) =>
    LET sel == selectors[1]
        r == single.result
        hasTag == Truthy(TagOf(sel))
        locator == IF hasTag THEN CssLocator(sel.tag, sel.text) ELSE TextLocator(sel.text)
        n == Count(page, locator)
    IN  ~QueryThrows(page, locator) =>
          /\ ~hasTag /\ n > 3 =>
               /\ r.confidence = 0
               /\ r.error.text = "Multiple elements found with text"
               /\ r.error.n = n
               /\ r.error.listed >= 1
               /\ r.error.listed <= CandidateLimit
          /\ ~hasTag /\ n >= 1 /\ n <= 3 =>
               /\ r.confidence = MEDIUM
               /\ r.error = NoError
               /\ r.locator = locator
          /\ hasTag /\ n >= 1 =>
               /\ r.confidence = HIGH
               /\ r.error = NoError
               /\ r.locator = locator

\* more matches than the candidate limit, and a tag selector with several matches
C11_Witness ==
  /\ Answered(TEXT_FALLBACK)
  /\ ~Truthy(TagOf(selectors[1]))
  /\ Count(page, TextLocator(selectors[1].text)) > CandidateLimit
  /\ single.result.error.listed = CandidateLimit


----------------------------------------------------------------------------
(* Properties of the extractor (SpecExtract) *)

\* extractHTML has returned the result of an extraction
Extracted == extraction.status = "returned" /\ ~extraction.result.failed

\* what the resolver answered for the i-th selector of the input
ResolutionOf(i) ==
  CHOOSE r \in {batch.results[k] : k \in 1..Len(batch.results)} :
    r.selector = _validateSelectors(selectors)[i]

Resolved(i) == ResolutionOf(i).error = NoError /\ ResolutionOf(i).confidence > 0

\* the locator of the i-th selector of the input still matches an element
Matched(i) == Count(page, ResolutionOf(i).locator) > 0

\* the element the i-th selector of the input resolved to
Target(i) == First(page, ResolutionOf(i).locator)

\* the byte size of the serialized content of the resolved selectors up to the
\* n-th; an element that cannot be serialized or is no longer in the document
\* has no content
RECURSIVE SummedSize(_)
SummedSize(n) ==
  IF n = 0 THEN 0
  ELSE SummedSize(n - 1)
       + (IF Resolved(n) /\ Matched(n) /\ Target(n) \notin page.unreadable
            THEN calculateHtmlSize(Content(page, Target(n), format))
            ELSE 0)

\* C5: totalSizeBytes never exceeds maxSize, and whenever the serialized
\* content of all resolved selectors together exceeds maxSize the result is
\* marked truncated.
C5_TruncationLaw ==
  Extracted =>
    /\ extraction.result.totalSizeBytes <= maxSize
    /\ SummedSize(Len(selectors)) > maxSize => extraction.result.truncated

C5_Witness ==
  /\ Extracted
  /\ SummedSize(Len(selectors)) > maxSize
  /\ extraction.result.truncated
  /\ extraction.result.stats.elementsFound >= 1
  /\ extraction.result.totalSizeBytes > 0

\* C6: the node under index i carries the i-th input selector as
\* matchedSelector and the content of the element that selector resolved to;
\* a selector whose resolution failed has no node under its index.
C6_NodeBelongsToItsSelector ==
  Extracted =>
    \A i \in DOMAIN extraction.result.elements :
      LET node == extraction.result.elements[i]
      IN  /\ node.matchedSelector = selectors[i]
          /\ Resolved(i)
          /\ (node.error = "" /\ Matched(i)) => node.element = Target(i)

\* C7: selectorsNotFound is the number of input selectors whose resolution
\* failed (zero matches or an error), and elementsFound is the number of
\* accepted top-level nodes, also when the accept loop stopped on the budget.
C7_StatsCountSelectors ==
  Extracted =>
    /\ extraction.result.stats.selectorsNotFound
         = Cardinality({i \in 1..Len(selectors) : ~Resolved(i)})
    /\ extraction.result.stats.elementsFound
         = Cardinality(DOMAIN extraction.result.elements)

\* a node extracted with depth d: a children field only when d > 1, the
\* children being extracted with depth d - 1
RECURSIVE WithinDepth(_, _)
WithinDepth(node, d) ==
  node.hasChildren =>
    /\ d > 1
    /\ \A k \in 1..Len(node.children) : WithinDepth(node.children[k], d - 1)

\* C8: with depth 1 no node has a children field; with depth d no accepted
\* node has descendants more than d - 1 levels below it; averageDepth is 0
\* when nothing was found and lies between 1 and d otherwise.
C8_TreeBoundedByDepth ==
  Extracted =>
    /\ \A i \in DOMAIN extraction.result.elements :
         WithinDepth(extraction.result.elements[i], depth)
    /\ LET avg == extraction.result.stats.averageDepth
       IN  IF extraction.result.stats.elementsFound = 0
             THEN avg.num = 0
             ELSE avg.den <= avg.num /\ avg.num <= depth * avg.den

\* the extracted tree stops at the depth asked for although the document goes on
C8_Witness ==
  /\ Extracted
  /\ \E i \in DOMAIN extraction.result.elements :
       LET node == extraction.result.elements[i]
       IN  /\ node.hasChildren
           /\ _calculateElementDepth(node) = depth
           /\ \E k \in 1..Len(node.children) :
                /\ ~node.children[k].hasChildren
                /\ Len(Children(page, node.children[k].element)) > 0

----------------------------------------------------------------------------
(* Properties of the element tools *)

\* the handler has finished a call that came with selectors
Handled ==
  /\ tool.status \in {"acted", "thrown"}
  /\ tool.issued \notin {"page._evaluateFunction", "page.screenshot"}

\* the selector lists of a finished call and the results resolved for each
GivenLists ==
  IF tool.name = "drag"
    THEN <<[selectors |-> tool.startSelectors, results |-> tool.startResults,
            target |-> tool.target],
           [selectors |-> selectors, results |-> batch.results,
            target |-> tool.endTarget]>>
    ELSE <<[selectors |-> selectors, results |-> batch.results, target |-> tool.target]>>

\* the result resolved for the i-th selector of a list
ResultFor(given, i) ==
  CHOOSE r \in {given.results[j] : j \in 1..Len(given.results)} :
    r.selector = _validateSelectors(given.selectors)[i]

\* the positions, in input order, of the selectors of a list that resolved
Succeeded(given) ==
  {i \in 1..Len(given.selectors) : ResultFor(given, i).error = NoError}

Lowest(positions) == CHOOSE i \in positions : \A j \in positions : i <= j

\* C12: an element tool acts on the element resolved by the first selector,
\* in input order, whose resolution succeeded.
C12_ActsOnFirstSuccessInInputOrder ==
  Handled /\ tool.status = "acted" =>
    \A k \in 1..Len(GivenLists) :
      LET given == GivenLists[k]
      IN  /\ Succeeded(given) # {}
          /\ Matches(page, given.target)
               = Matches(page, ResultFor(given, Lowest(Succeeded(given))).locator)

LocatorOf(selector) ==
  IF isRefSelector(selector) THEN RefLocator(selector.ref)
  ELSE IF isRoleSelector(selector)
    THEN RoleLocator(selector.role,
                     IF Truthy(TextOf(selector)) THEN selector.text ELSE NoFilter)
  ELSE IF isCSSSelector(selector) THEN CssLocator(selector.css, NoFilter)
  ELSE IF Truthy(TagOf(selector)) THEN CssLocator(selector.tag, selector.text)
  ELSE TextLocator(selector.text)

\* C14: a selector of any type that matches more than one element resolves to
\* a failure of confidence 0 whose error lists candidates, and the tool does
\* not act through that selector.
C14_MultipleMatchesAreErrors ==
  Handled =>
    \A k \in 1..Len(GivenLists) :
      \A i \in 1..Len(GivenLists[k].selectors) :
        LET given == GivenLists[k]
            r == ResultFor(given, i)
            locator == LocatorOf(r.selector)
        IN  /\ ~QueryThrows(page, locator)
            /\ Count(page, locator) > 1
            /\ r.error # TimeoutError(timeoutMs)
            => /\ r.confidence = 0
               /\ r.error.listed >= 1
               /\ given.target # locator

\* the lists of a finished call none of whose selectors resolved
FailedLists == {k \in 1..Len(GivenLists) : Succeeded(GivenLists[k]) = {}}

NoPageAction ==
  /\ tool.status = "thrown"
  /\ tool.issued = "none"
  /\ tool.target = NoTarget
  /\ tool.endTarget = NoTarget

\* the thrown error carries one error per selector of the lists, each the
\* error of its selector
CarriesErrorsOf(lists) ==
  /\ Len(tool.errors) = Cardinality({<<k, i>> \in lists \X (1..MaxToolSelectors + 1) :
                                       i <= Len(GivenLists[k].selectors)})
  /\ \A k \in lists : \A i \in 1..Len(GivenLists[k].selectors) :
       /\ ResultFor(GivenLists[k], i).error # NoError
       /\ \E j \in 1..Len(tool.errors) : tool.errors[j] = ResultFor(GivenLists[k], i).error

\* C15 as stated: when none of the selectors given to the tool resolves, the
\* tool issues no page action and throws an error that contains the error of
\* every selector it was given.
C15_AllFailedRaisesEveryError ==
  Handled /\ FailedLists = 1..Len(GivenLists) =>
    NoPageAction /\ CarriesErrorsOf(1..Len(GivenLists))

\* C15 amended: when none of the selectors of a list given to the tool
\* resolves, the tool issues no page action and throws an error that contains
\* the error of every selector of that list; drag, which is given two lists,
\* reports the start list if it failed and the end list otherwise.
C15_FailedListRaisesItsErrors ==
  Handled /\ FailedLists # {} =>
    NoPageAction /\ CarriesErrorsOf({Lowest(FailedLists)})

\* a drag whose two lists both failed: the error is that of the start list
C15_Witness ==
  /\ Handled
  /\ tool.name = "drag"
  /\ FailedLists = {1, 2}
  /\ Len(tool.startSelectors) = 2
  /\ tool.message = "Failed to resolve start element selectors"
  /\ Len(tool.errors) = 2

----------------------------------------------------------------------------
(* Properties of every result the resolver returns *)

\* the results returned so far by resolveSelectors and resolveSingleSelector
ReturnedResults ==
  (IF batch.status = "returned"
     THEN {batch.results[i] : i \in 1..Len(batch.results)} ELSE {})
  \cup {tool.startResults[i] : i \in 1..Len(tool.startResults)}
  \cup (IF single.status = "returned" THEN {single.result} ELSE {})

\* C16: in every result returned by resolveSelectors or resolveSingleSelector
\* the error field is set if and only if confidence is 0.
C16_ErrorIffConfidenceZero ==
  \A r \in ReturnedResults : (r.error # NoError) <=> (r.confidence = 0)

\* a batch that returned a failure next to a success
C16_Witness ==
  /\ batch.status = "returned"
  /\ \E i, j \in 1..Len(batch.results) :
       /\ batch.results[i].confidence = 0
       /\ batch.results[i].error # NoError
       /\ batch.results[j].confidence > 0
       /\ batch.results[j].error = NoError

\* C17: alternatives are carried only by results of role or text selectors
\* that failed with zero matches, such a result has confidence 0 and an error,
\* and no alternative is resolved or acted on in place of the failed selector:
\* there is one result per given selector and a tool acts on the locator of a
\* given selector that resolved.
C17_AlternativesAreSuggestionsOnly ==
  /\ \A r \in ReturnedResults :
       r.hasAlternatives =>
         /\ r.strategy \in {ROLE_SEQUENTIAL, TEXT_FALLBACK}
         /\ ~QueryThrows(page, LocatorOf(r.selector))
         /\ Count(page, LocatorOf(r.selector)) = 0
         /\ r.confidence = 0
         /\ r.error # NoError
         /\ r.locator = NotFoundLocator
  /\ single.status = "returned" =>
       IF single.result.error = NoError
         THEN single.result.locator = LocatorOf(single.result.selector)
         ELSE single.result.locator = NotFoundLocator
  /\ Handled =>
       \A k \in 1..Len(GivenLists) :
         LET given == GivenLists[k]
         IN  /\ Len(given.results) = Len(given.selectors)
             /\ given.target \in {NoTarget} \cup
                  {LocatorOf(given.selectors[i]) : i \in Succeeded(given)}

\* a tool acted although a selector of its list failed with an alternative at hand
C17_Witness ==
  /\ Handled
  /\ tool.status = "acted"
  /\ \E i \in 1..Len(selectors) :
       /\ ResultFor(GivenLists[Len(GivenLists)], i).hasAlternatives
       /\ Len(ResultFor(GivenLists[Len(GivenLists)], i).alternatives) > 0

----------------------------------------------------------------------------
(* Properties of the metadata extraction *)

\* what a read of the metadata yields when it succeeds, and the default the
\* field takes when it fails
ReadValue(element, read) ==
  CASE read = "tagName" -> element.tag
    [] read = "attributes" -> attributesOf(element)
    [] read = "textContent" -> element.text
    [] read = "boundingBox" -> "rect"
    [] OTHER -> TRUE

DefaultValue(read) ==
  CASE read = "tagName" -> S_unknown
    [] read = "attributes" -> <<>>
    [] read = "textContent" -> <<>>
    [] read = "boundingBox" -> "undefined"
    [] OTHER -> FALSE

\* C19: the failure of a single sub-read of the metadata extraction of a
\* resolved element does not fail the extraction: the failed field takes its
\* default and every other field keeps the value read.
C19_SubReadFailureIsLocal ==
  single.status = "returned" /\ single.result.error = NoError =>
    LET r == single.result
        element == page.elements[First(page, r.locator)]
    IN  /\ "metadata" \in DOMAIN r
        /\ r.metadata # undefined
        /\ \A read \in Reads :
             r.metadata[read] = IF read \in single.failedReads
                                  THEN DefaultValue(read)
                                  ELSE ReadValue(element, read)

----------------------------------------------------------------------------
(* Properties of the accept loop *)

\* the n-th gathered result carries an extracted node
HasNode(n) ==
  ~extraction.allResults[n].error /\ extraction.allResults[n].element # NoElement

NodeSize(n) == extraction.allResults[n].element.metadata.sizeBytes

\* the sizes of the extracted nodes up to the n-th, added up
RECURSIVE RunningTotal(_)
RunningTotal(n) ==
  IF n = 0 THEN 0
  ELSE RunningTotal(n - 1) + (IF HasNode(n) THEN NodeSize(n) ELSE 0)

\* the nodes with which the running total passes maxSize
Overflowing ==
  {n \in 1..Len(extraction.allResults) : HasNode(n) /\ RunningTotal(n) > maxSize}

\* C20: the accept loop accepts every node that fits in maxSize minus the
\* running total; the first node that does not fit is cut to the remaining
\* budget, included in the result and marks it truncated; every node after
\* it is absent from the result.
C20_FirstOverflowingNodeIsCut ==
  Extracted =>
    LET elements == extraction.result.elements
        nodes == {n \in 1..Len(extraction.allResults) : HasNode(n)}
    IN  /\ \A n \in nodes :
             (Overflowing = {} \/ n < Lowest(Overflowing)) =>
               /\ n \in DOMAIN elements
               /\ elements[n] = extraction.allResults[n].element
        /\ Overflowing # {} =>
             LET k == Lowest(Overflowing)
             IN  /\ extraction.result.truncated
                 /\ k \in DOMAIN elements
                 /\ elements[k].metadata.sizeBytes <= maxSize - RunningTotal(k - 1)
                 /\ \A n \in nodes : n > k => n \notin DOMAIN elements

----------------------------------------------------------------------------
(* Gathering of the concurrent extractions *)

\* the accept loop over the yields of the extractions taken in selector order
InSelectorOrder == _processAllSelectors(extraction.allResults, maxSize)

----------------------------------------------------------------------------
(* Byte budget of the children *)

\* the sum of metadata.sizeBytes over a sequence of nodes
RECURSIVE SizeOf(_)
SizeOf(nodes) ==
  IF nodes = <<>> THEN 0 ELSE Head(nodes).metadata.sizeBytes + SizeOf(Tail(nodes))

\* the top-level nodes of the result accepted before position n
AcceptedBefore(n) ==
  SizeOf([k \in 1..(n - 1) |->
            IF k \in DOMAIN extraction.result.elements
              THEN extraction.result.elements[k]
              ELSE [metadata |-> [sizeBytes |-> 0]]])

\* C22: the size of every accepted top-level node plus the sizes of its kept
\* direct children is at most maxSize minus the sizes of the top-level nodes
\* accepted before it
C22_ChildrenWithinRemainingBudget ==
  Extracted =>
    \A n \in DOMAIN extraction.result.elements :
      LET node == extraction.result.elements[n]
      IN  node.metadata.sizeBytes + SizeOf(node.children) <= maxSize - AcceptedBefore(n)

----------------------------------------------------------------------------
(* Scheduling of the strategies *)

\* the promise of tasks[i] has been created
Started(i) == tasks[i].pc # "waiting"

\* C23: under the hybrid strategy no CSS, role or text resolution has started
\* while a ref resolution of the batch has not produced its result, and the
\* ref resolutions all started at the call, at the same time
C23_HybridOthersAfterRefs ==
  (batch.status # "idle" /\ executionStrategy = "hybrid") =>
    \A j \in 1..Len(tasks) :
      isRefSelector(tasks[j].selector) =>
        /\ tasks[j].pc \notin {"waiting", "delay"}
        /\ tasks[j].startTime = 0
        /\ \A i \in 1..Len(tasks) :
             (~isRefSelector(tasks[i].selector) /\ Started(i)) => Settled(tasks[j])

\* a hybrid batch whose ref resolution timed out and whose CSS resolution has
\* started after it
C23_Witness ==
  /\ batch.status = "pending"
  /\ executionStrategy = "hybrid"
  /\ \E j \in 1..Len(tasks) : isRefSelector(tasks[j].selector) /\ tasks[j].timedOut
  /\ \E i \in 1..Len(tasks) : isCSSSelector(tasks[i].selector) /\ tasks[i].pc = "racing"

\* the resolutions whose engine query is in flight
InFlight == {i \in 1..Len(tasks) : tasks[i].query = "pending"}

\* C24: under the sequential strategy at most one selector resolution of the
\* batch has an engine query in flight at any moment
C24_SequentialOneAtATime ==
  executionStrategy = "sequential" => Cardinality(InFlight) <= 1

\* what the k-th selector in category order resolves to when no timer fires,
\* whatever the strategy
Untimed(k) ==
  _resolveSelectorWithTimeout(
    page, allSelectors(_categorizeSelectors(_validateSelectors(selectors)))[k],
    timeoutMs, FALSE, 0).value

NoTimeout == \A i \in 1..Len(tasks) : ~tasks[i].timedOut

\* C28: when no timeout fires, the array a strategy returns holds, at each
\* position, the selector, confidence, strategy tag, locator and error that do
\* not depend on the strategy: parallel, sequential and hybrid return equal
\* arrays
C28_StrategiesReturnEqualArrays ==
  (batch.status = "returned" /\ NoTimeout) =>
    /\ Len(batch.results) = Len(selectors)
    /\ \A k \in 1..Len(batch.results) :
         /\ batch.results[k].selector = Untimed(k).selector
         /\ batch.results[k].confidence = Untimed(k).confidence
         /\ batch.results[k].strategy = Untimed(k).strategy
         /\ batch.results[k].error = Untimed(k).error
         /\ batch.results[k].locator = Untimed(k).locator

\* a sequential batch of three selectors returned without timeout, with a
\* success and a failure
C28_Witness ==
  /\ batch.status = "returned"
  /\ NoTimeout
  /\ executionStrategy = "sequential"
  /\ Len(batch.results) = 3
  /\ \E k \in 1..3 : batch.results[k].confidence > 0
  /\ \E k \in 1..3 : batch.results[k].error # NoError

----------------------------------------------------------------------------
(* Truncation of the content of a node *)

EndsWithMarker(html) ==
  Len(html) >= Len(TRUNCATED)
    /\ SubSeq(html, Len(html) - Len(TRUNCATED) + 1, Len(html)) = TRUNCATED

\* the part of a truncated content before the marker does not end inside a tag
NotCutInsideTag(html) ==
  LET kept == SubSeq(html, 1, Len(html) - Len(TRUNCATED))
  IN  lastIndexOf(kept, "<") <= lastIndexOf(kept, ">")

\* html is what the claim allows for this content and this budget
WithinBudget(html, content, budget) ==
  IF calculateHtmlSize(content) <= budget
    THEN html = content
    ELSE /\ EndsWithMarker(html)
         /\ NotCutInsideTag(html)
         /\ calculateHtmlSize(html) <= budget

\* a node extracted with this budget, and the children kept under it, which
\* were extracted with what the node left of it
RECURSIVE Truncated(_, _)
Truncated(node, budget) ==
  (node.error = "" /\ page.elements[node.element] # Gone) =>
    /\ WithinBudget(node.html, Content(page, node.element, format), budget)
    /\ \A k \in 1..Len(node.children) :
         Truncated(node.children[k], budget - node.metadata.sizeBytes)

\* C25: the content of every extracted node is the content of its element
\* unchanged when that fits the byte budget the node was extracted with, and
\* otherwise ends with the truncation marker, is not cut inside a tag and is
\* at most as large as the budget
C25_TruncationFitsTheBudget ==
  \A i \in 1..Len(extraction.allResults) :
    LET r == extraction.allResults[i]
    IN  (r.settled /\ ~r.error /\ r.element # NoElement) => Truncated(r.element, maxSize)

----------------------------------------------------------------------------
(* Alternatives of a role selector without match *)

\* the fixed table of adjacent roles
AdjacentRoles ==
  [button |-> <<"link", "menuitem">>, link |-> <<"button", "menuitem">>,
   textbox |-> <<"searchbox", "combobox">>, checkbox |-> <<"radio", "switch">>]

\* the probe of an alternative role answers, and finds an element of that
\* role that contains the text of the selector if it has one
Probed(altRole, selector) ==
  /\ altRole \notin page.failRoles
  /\ \E i \in 1..Len(page.elements) :
       /\ page.elements[i].role = altRole
       /\ Truthy(TextOf(selector)) => Contains(page.elements[i].text, selector.text)

\* a role selector was resolved and matched nothing
RoleWithoutMatch ==
  /\ Answered(ROLE_SEQUENTIAL)
  /\ ~QueryThrows(page, RoleLocator(selectors[1].role, TextOf(selectors[1])))
  /\ Count(page, RoleLocator(selectors[1].role, TextOf(selectors[1]))) = 0

\* C26: the alternatives of a role selector with zero matches are the roles
\* adjacent to its role in the table whose probe, with the text of the
\* selector, finds an element, in table order and at most 3, each carrying
\* that text; a role outside the table or a probe that fails adds none, and
\* the result stays the not-found failure
C26_RoleAlternativesAreProbedAdjacentRoles ==
  RoleWithoutMatch =>
    LET sel == selectors[1]
        r == single.result
        adjacent == IF sel.role \in DOMAIN AdjacentRoles
                      THEN AdjacentRoles[sel.role] ELSE <<>>
        found == SelectSeq(adjacent, LAMBDA a : Probed(a, sel))
    IN  /\ Len(r.alternatives) = Len(found)
        /\ Len(r.alternatives) <= 3
        /\ \A k \in 1..Len(found) :
             /\ r.alternatives[k].role = found[k]
             /\ TextOf(r.alternatives[k]) = TextOf(sel)
        /\ r.confidence = 0
        /\ r.error.text = "No elements found with role"
        /\ r.locator = NotFoundLocator

\* a button selector without match on a page that has a link and a menu item
\* and whose link probe fails: the menu item is the only alternative
C26_Witness ==
  /\ RoleWithoutMatch
  /\ selectors[1].role = "button"
  /\ page.failRoles = {"link"}
  /\ \E i \in 1..Len(page.elements) : page.elements[i].role = "link"
  /\ Len(single.result.alternatives) = 1
  /\ single.result.alternatives[1].role = "menuitem"

----------------------------------------------------------------------------
(* Advisories of an extraction result *)

Advises(advisory) ==
  \E k \in 1..Len(extraction.result.suggestions) :
    extraction.result.suggestions[k] = advisory

\* C27: the suggestions of an extraction result hold the truncation advisory
\* exactly when truncated is true, the unmatched-selector advisory exactly
\* when selectorsNotFound > 0 and the large-content advisory exactly when
\* totalSizeBytes > 30000; elements, stats and truncated are those of the
\* accept loop, with or without advisories
C27_AdvisoriesFollowTheResult ==
  Extracted =>
    LET r == extraction.result
        accepted == _processAllSelectors(extraction.allResults, maxSize)
    IN  /\ Advises("Content was truncated") <=> r.truncated
        /\ Advises("Some selectors did not match elements") <=> r.stats.selectorsNotFound > 0
        /\ Advises("Large content detected") <=> r.totalSizeBytes > 30000
        /\ r.elements = accepted.elements
        /\ r.truncated = accepted.truncated
        /\ r.stats.elementsFound = accepted.elementsFound
        /\ r.stats.selectorsNotFound = accepted.selectorsNotFound

\* a result of more than 30000 bytes with a selector that matched nothing
\* and no truncation: two advisories out of three
C27_Witness ==
  /\ Extracted
  /\ Advises("Large content detected")
  /\ Advises("Some selectors did not match elements")
  /\ ~Advises("Content was truncated")
  /\ extraction.result.totalSizeBytes > 30000

----------------------------------------------------------------------------
(* Counts of an extraction result *)

\* the extractions that yielded a node the accept loop did not store: the
\* loop left on the byte budget at the first of them
LeftOut ==
  {i \in 1..Len(extraction.allResults) :
     /\ ~extraction.allResults[i].error
     /\ extraction.allResults[i].element # NoElement
     /\ i \notin DOMAIN extraction.result.elements}

\* the selectors that resolved and whose locator matched no element when the
\* content was read
Vanished ==
  {i \in 1..Len(extraction.allResults) :
     ~extraction.allResults[i].error /\ extraction.allResults[i].element = NoElement}

\* C29: elementsFound is the number of entries of elements, elementsFound +
\* selectorsNotFound is at most the number of selectors, and it is smaller
\* when the accept loop left on the byte budget or a resolved locator
\* matched nothing at extraction time
C29_CountsWithinSelectors ==
  Extracted =>
    LET stats == extraction.result.stats
        counted == stats.elementsFound + stats.selectorsNotFound
    IN  /\ stats.elementsFound = Cardinality(DOMAIN extraction.result.elements)
        /\ counted <= Len(selectors)
        /\ (LeftOut # {} \/ Vanished # {}) => counted < Len(selectors)

\* p#big was resolved by its ref, then removed before its content was read
C29_Witness ==
  /\ Extracted
  /\ Vanished # {}
  /\ page.elements[6] = Gone
  /\ extraction.result.stats.elementsFound + extraction.result.stats.selectorsNotFound
       < Len(selectors)

----------------------------------------------------------------------------
(* Disposal of a SmartHandle (SpecHandle) *)

\* C30: whatever dispose() calls are issued on a handle, overlapping ones
\* included, the dispose of the resource and untrackResource are each
\* invoked at most once, and exactly once as soon as a call has completed;
\* a get, set or getResource made after a dispose() call completed throws,
\* also when the dispose of the resource raised
C30_DisposedExactlyOnce ==
  /\ smartHandle.resourceDisposals <= 1
  /\ smartHandle.untracked <= 1
  /\ Completed # {} => (smartHandle.resourceDisposals = 1 /\ smartHandle.untracked = 1)
  /\ (smartHandle.access.afterDispose /\ smartHandle.access.kind # "isDisposed")
       => smartHandle.access.threw

====
